---------------------------- MODULE Spec2Model ----------------------------
(***************************************************************************)
(* A model of the finance tracker's client: the dashboard's aggregation    *)
(* effect, the budget page, the entity pages' submit handlers, the         *)
(* currency input with the forms' validation, and the transaction form;    *)
(* the auth provider, the views' guards and the auth form; the backend's   *)
(* row level security and foreign keys; the pages' delete handlers and     *)
(* CSV exports; contributions from two sessions, two runs of the           *)
(* dashboard's fetch effect, the reports page's fetches, and the submit    *)
(* handlers' flags.                                                        *)
(*                                                                         *)
(* Amounts are integers (minor units).  A date is the number of its        *)
(* calendar month counted from year 0 (year * 12 + month index), which is  *)
(* what Date.getFullYear() and Date.getMonth() read back.                  *)
(***************************************************************************)
EXTENDS Integers, Sequences, FiniteSets, TLC

VARIABLES
    today,            \* new Date(): the current calendar month
    dbCategories,     \* backend table categories (rows of the user)
    dbTransactions,   \* backend table transactions (rows of the user)
    dbGoals,          \* backend table savings_goals (rows of the user)
    transactions,     \* useState: the mounted page's transactions
    categories,       \* useState: the mounted page's categories
    savingsGoals,     \* useState: the mounted page's savings goals
    monthlyData,      \* useState (dashboard): monthly summary
    categoryData,     \* useState (dashboard): category summary
    stats,            \* useState (dashboard, investments): the totals shown
    otherGoals,       \* goals page of another session: its savings goals
    reload,           \* where a second run of the dashboard's fetchData is
    dateRange,        \* useState (reports): the selected date range
    fetches,          \* reports: the runs of fetchData since the page loaded
    isSubmitting,     \* useState: the mounted form's submit control is disabled
    awaited,          \* the backend call a submit handler is waiting for, if any
    pc,               \* where the page's fetchData is
    toast,            \* the notification the last step showed, if any
    lastCall,         \* the backend call the last step completed, if any
    otherOps,         \* number of writes other sessions of the user have made
    budgetStatus,     \* budget page: what getBudgetStatus gave for each category
    preLoad,          \* the page's collections when its last load started
    page,             \* the page the router has mounted
    dbInvestments,    \* backend table investments (rows of the user)
    investments,      \* useState: the investments page's investments
    current,          \* useState: the record being edited (currentTransaction, ...)
    dialog,           \* which of the page's dialogs is open
    field,            \* the amount field the user is filling in
    text,             \* what the currency input's change event carried
    formValue,        \* the value the currency input handed to the form
    formError,        \* the form shows a validation message for the field
    issued,           \* the write the last step sent to the backend, if any
    variant,          \* the transaction form has the inline category dialog
    formType,         \* transaction form: the watched field "type"
    formCategory,     \* transaction form: the field "category_id"
    filteredCategories, \* transaction form: the categories offered
    submitted,        \* transaction form: the values the last step submitted
    session,          \* AuthProvider useState: session
    user,             \* AuthProvider useState: user
    profile,          \* AuthProvider useState: profile
    isLoading,        \* AuthProvider useState: isLoading
    authPc,           \* where the provider's getSession is
    pendingProfiles,  \* users whose profile a notification's callback is fetching
    notified,         \* number of auth notifications delivered
    dbProfiles,       \* backend table profiles: the ids that have a row
    loading,          \* calls the view's load in flight has still to issue
    dbRows,           \* backend: the rows of every user's tables
    request,          \* backend: the command the last step ran, and its result
    authUsers,        \* backend: auth.users, the users that have signed up
    authForm,         \* AuthForm: where onSubmit is
    deleting,         \* the delete a page's handler is awaiting, if any
    download,         \* the export the last step ran, and the file it downloaded
    categoryFilter,   \* reports page useState: categoryFilter
    typeFilter        \* reports page useState: typeFilter

dbVars   == <<dbCategories, dbTransactions, dbGoals>>
collVars == <<transactions, categories, savingsGoals>>
dashVars == <<monthlyData, categoryData, stats>>
netVars  == <<pc, toast, lastCall>>
envVars  == <<today, otherOps>>
budgetVars == <<budgetStatus, preLoad>>
\* what belongs to pages other than the dashboard, and other than the budget page
crudVars == <<page, dbInvestments, investments, current, dialog>>
formVars == <<field, text, formValue, formError, issued>>
txFormVars == <<variant, formType, formCategory, filteredCategories, submitted>>
authVars == <<session, user, profile, isLoading, authPc, pendingProfiles, notified,
              dbProfiles>>
\* what belongs to none of the pages and forms: the provider, the router's guards
backendVars == <<dbRows, request, authUsers, authForm>>
handlerVars == <<deleting, download, categoryFilter, typeFilter>>
\* what only the concurrent runs and the submit flags of the last sections use
lateVars == <<otherGoals, reload, dateRange, fetches, isSubmitting, awaited>>
offPages  == <<authVars, loading, backendVars, handlerVars, lateVars>>
\* what belongs to the pages and forms, not to the provider or the router
pageSide  == <<envVars, dbVars, collVars, dashVars, pc, budgetVars,
               dbInvestments, investments, current, dialog,
               field, text, formValue, formError, txFormVars, handlerVars, lateVars>>
offAuth   == <<pageSide, backendVars>>
offDash   == <<budgetVars, crudVars, formVars, txFormVars, offPages>>
offBudget == <<dashVars, crudVars, formVars, txFormVars, offPages>>
offCrud   == <<formVars, txFormVars, offPages>>
vars     == <<envVars, dbVars, collVars, dashVars, netVars, budgetVars, crudVars,
             formVars, txFormVars, offPages>>

---------------------------------------------------------------------------
(* Bounds of the model *)

MaxTx == 2
MaxInsertFailures == 1
MaxOtherOps == 1
MaxRows == 2
MaxSaved == 150
MaxLen == 3
MaxCategories == 3
MaxBudget == 52
MaxAmount == 40

---------------------------------------------------------------------------
(* Values *)

\* an optional value is a sequence of at most one element
Null == <<>>
Some(x) == <<x>>
Types == {"income", "expense"}
Amounts == {50, 100}

\* new Date(year, monthIndex, 1): a month index outside 0..11 carries into the year
NewDate(year, monthIndex) == year * 12 + monthIndex
getFullYear(d) == d \div 12
getMonth(d) == d % 12

\* the months the model's clock may show: January and February 2024
Todays == {NewDate(2024, 0), NewDate(2024, 1)}
\* the dates of stored transactions: this month, last month, a year ago
DatesAround(t) == {t, t - 1, t - 12}

RECURSIVE SumAmounts(_)
SumAmounts(s) == IF s = <<>> THEN 0 ELSE Head(s).amount + SumAmounts(Tail(s))

Reverse(s) == [k \in 1..Len(s) |-> s[Len(s) + 1 - k]]


---------------------------------------------------------------------------
(* lib/utils and the dashboard's "process data" effect *)

ChartMonths == 6

\* getLastNMonths(n): n month records ending at the current month, reversed
\* so that the oldest comes first
MonthBack(t, i) ==
    LET month == NewDate(getFullYear(t), getMonth(t) - i)
    IN  [month |-> getMonth(month) + 1, year |-> getFullYear(month)]

getLastNMonths(n, t) == Reverse([k \in 1..n |-> MonthBack(t, k - 1)])

InMonth(t, month) ==
    /\ getMonth(t.date) + 1 = month.month
    /\ getFullYear(t.date) = month.year

IsIncome(t) == t.type = "income"
IsExpense(t) == t.type = "expense"

\* one point of the line chart: the totals of one month
MonthStats(txs, month) ==
    LET InThisMonth(t) == InMonth(t, month)
        monthTransactions == SelectSeq(txs, InThisMonth)
        monthlyIncome == SumAmounts(SelectSeq(monthTransactions, IsIncome))
        monthlyExpenses == SumAmounts(SelectSeq(monthTransactions, IsExpense))
    IN  [name |-> month.month,
         income |-> monthlyIncome, expenses |-> monthlyExpenses,
         balance |-> monthlyIncome - monthlyExpenses]

monthlyStats(txs, t) ==
    LET months == getLastNMonths(ChartMonths, t)
    IN  [k \in 1..Len(months) |-> MonthStats(txs, months[k])]

\* Array.prototype.sort((a, b) => b.value - a.value): stable, largest first
RECURSIVE InsertDesc(_, _)
InsertDesc(e, s) ==
    IF s = <<>> THEN <<e>>
    ELSE IF Head(s).value >= e.value THEN <<Head(s)>> \o InsertDesc(e, Tail(s))
    ELSE <<e>> \o s

RECURSIVE SortDesc(_)
SortDesc(s) ==
    IF s = <<>> THEN <<>>
    ELSE InsertDesc(s[Len(s)], SortDesc(SubSeq(s, 1, Len(s) - 1)))

CategoryTotal(txs, category) ==
    LET OfCategory(t) == t.category_id = category.id
    IN  [name |-> category.id,
         value |-> SumAmounts(SelectSeq(txs, OfCategory))]

IsExpenseCategory(c) == c.type = "expense"
HasValue(c) == c.value > 0

\* the pie chart: the expense categories' totals, zero totals dropped
expenseByCategory(txs, cats) ==
    LET expenseCats == SelectSeq(cats, IsExpenseCategory)
        totals == [k \in 1..Len(expenseCats) |-> CategoryTotal(txs, expenseCats[k])]
    IN  SortDesc(SelectSeq(totals, HasValue))

\* the totals the dashboard starts with
NoStats == [totalIncome |-> 0, totalExpenses |-> 0, balance |-> 0, savingsTotal |-> 0]

RECURSIVE SumCurrentAmounts(_)
SumCurrentAmounts(goals) ==
    IF goals = <<>> THEN 0
    ELSE Head(goals).current_amount + SumCurrentAmounts(Tail(goals))

\* what the effect passes to setStats
dashboardStats(txs, goals) ==
    LET income == SumAmounts(SelectSeq(txs, IsIncome))
        expenses == SumAmounts(SelectSeq(txs, IsExpense))
    IN  [totalIncome |-> income, totalExpenses |-> expenses,
         balance |-> income - expenses,
         savingsTotal |-> SumCurrentAmounts(goals)]

\* useEffect(..., [transactions, categories, savingsGoals]): runs after every
\* change of a collection and does nothing while there are no transactions
ProcessData ==
    IF Len(transactions') = 0
    THEN UNCHANGED dashVars
    ELSE /\ monthlyData' = monthlyStats(transactions', today)
         /\ categoryData' = expenseByCategory(transactions', categories')
         /\ stats' = dashboardStats(transactions', savingsGoals')


---------------------------------------------------------------------------
(* The backend and the notifications *)

NoToast == [title |-> "none", description |-> "", variant |-> "default"]
NoCall == [call |-> "none", error |-> FALSE]

\* a backend error carries a message; the model's message names the call
ErrorMessage(call) == call

ErrorToast(title, call) ==
    [title |-> title, description |-> ErrorMessage(call), variant |-> "destructive"]

SuccessToast(title) == [title |-> title, description |-> "", variant |-> "default"]

Failed(call) == [call |-> call, error |-> TRUE]
Succeeded(call) == [call |-> call, error |-> FALSE]
\* a write that succeeded, with the id of the row it wrote
Wrote(call, id) == [call |-> call, error |-> FALSE, id |-> id]

Ids(rows) == {rows[k].id : k \in 1..Len(rows)}

FreshId(rows) == IF rows = <<>> THEN 1 ELSE 1 + CHOOSE m \in Ids(rows) : \A x \in Ids(rows) : x <= m

RemoveAt(s, i) == SubSeq(s, 1, i - 1) \o SubSeq(s, i + 1, Len(s))

\* .order("date", { ascending: false }): latest first, equal dates in table order
RECURSIVE InsertByDate(_, _)
InsertByDate(e, s) ==
    IF s = <<>> THEN <<e>>
    ELSE IF Head(s).date >= e.date THEN <<Head(s)>> \o InsertByDate(e, Tail(s))
    ELSE <<e>> \o s

RECURSIVE OrderByDateDesc(_)
OrderByDateDesc(s) ==
    IF s = <<>> THEN <<>>
    ELSE InsertByDate(s[Len(s)], OrderByDateDesc(SubSeq(s, 1, Len(s) - 1)))

\* the ten categories createDefaultCategories inserts, by type
DefaultCategories ==
    <<"expense", "expense", "expense", "expense", "expense", "expense",
      "income", "income", "income", "income">>

CategoryRow(id, type) == [id |-> id, type |-> type, budget |-> Null]

TransactionRow(id, amount, type, category_id, date) ==
    [id |-> id, amount |-> amount, type |-> type,
     category_id |-> category_id, date |-> date]

\* transactions.category_id REFERENCES categories(id)
CategoryExists(id) == \E k \in 1..Len(dbCategories) : dbCategories[k].id = id

---------------------------------------------------------------------------
(* DashboardPage *)

\* a step that completes no backend call and shows no notification
Quiet ==
    /\ toast' = NoToast
    /\ lastCall' = NoCall

\* the fetch effect starts (it runs whenever the user object changes)
DashFetchStart ==
    /\ pc = "idle"
    /\ pc' = "categories"
    /\ Quiet
    /\ UNCHANGED <<envVars, dbVars, collVars, dashVars>>
    /\ UNCHANGED offDash

\* catch (error) of fetchData
DashFetchError(call) ==
    /\ toast' = ErrorToast("Error fetching data", call)
    /\ lastCall' = Failed(call)
    /\ pc' = "idle"
    /\ UNCHANGED <<envVars, dbVars, collVars, dashVars>>

\* the categories select answers
DashCategoriesDone ==
    /\ pc = "categories"
    /\ \/ DashFetchError("select categories")
       \/ /\ lastCall' = Succeeded("select categories")
          /\ toast' = NoToast
          /\ IF Len(dbCategories) = 0
             THEN /\ pc' = "defaults"
                  /\ UNCHANGED <<collVars, dashVars>>
             ELSE /\ categories' = dbCategories
                  /\ pc' = "transactions"
                  /\ UNCHANGED <<transactions, savingsGoals>>
                  /\ ProcessData
          /\ UNCHANGED <<envVars, dbVars>>
    /\ UNCHANGED offDash

\* createDefaultCategories: ten inserts, none of whose results is looked at
DashCreateDefaults ==
    /\ pc = "defaults"
    /\ \E failed \in SUBSET (1..Len(DefaultCategories)) :
          /\ Cardinality(failed) <= MaxInsertFailures
          /\ LET Inserted(r) == (r.id - Len(dbCategories)) \notin failed
                 rows == [k \in 1..Len(DefaultCategories) |->
                              CategoryRow(Len(dbCategories) + k, DefaultCategories[k])]
             IN  dbCategories' = dbCategories \o SelectSeq(rows, Inserted)
          /\ lastCall' = IF failed = {} THEN Succeeded("insert categories")
                         ELSE Failed("insert categories")
    /\ toast' = NoToast
    /\ pc' = "newCategories"
    /\ UNCHANGED <<envVars, dbTransactions, dbGoals, collVars, dashVars>>
    /\ UNCHANGED offDash

\* the second categories select answers; its error is not looked at
DashNewCategoriesDone ==
    /\ pc = "newCategories"
    /\ \/ /\ categories' = dbCategories
          /\ lastCall' = Succeeded("select categories")
       \/ /\ categories' = <<>>
          /\ lastCall' = Failed("select categories")
    /\ toast' = NoToast
    /\ pc' = "transactions"
    /\ UNCHANGED <<transactions, savingsGoals>>
    /\ ProcessData
    /\ UNCHANGED <<envVars, dbVars>>
    /\ UNCHANGED offDash

\* the transactions select answers
DashTransactionsDone ==
    /\ pc = "transactions"
    /\ \/ DashFetchError("select transactions")
       \/ /\ transactions' = OrderByDateDesc(dbTransactions)
          /\ lastCall' = Succeeded("select transactions")
          /\ toast' = NoToast
          /\ pc' = "goals"
          /\ UNCHANGED <<categories, savingsGoals>>
          /\ ProcessData
          /\ UNCHANGED <<envVars, dbVars>>
    /\ UNCHANGED offDash

\* the savings goals select answers
DashGoalsDone ==
    /\ pc = "goals"
    /\ \/ DashFetchError("select savings_goals")
       \/ /\ savingsGoals' = dbGoals
          /\ lastCall' = Succeeded("select savings_goals")
          /\ toast' = NoToast
          /\ pc' = "idle"
          /\ UNCHANGED <<categories, transactions>>
          /\ ProcessData
          /\ UNCHANGED <<envVars, dbVars>>
    /\ UNCHANGED offDash

\* handleAddTransaction with the values the transaction form passed on: a
\* positive amount and a category the form offers for the chosen type
DashAddTransaction ==
    /\ Len(transactions) < MaxTx
    /\ Len(dbTransactions) < MaxTx
    /\ \E amount \in Amounts, k \in 1..Len(categories) :
          LET category == categories[k]
              row == TransactionRow(FreshId(dbTransactions), amount,
                                    category.type, category.id, today)
          IN  \/ /\ CategoryExists(category.id)
                 /\ dbTransactions' = Append(dbTransactions, row)
                 /\ transactions' = <<row>> \o transactions
                 /\ toast' = SuccessToast("Transaction added")
                 /\ lastCall' = Succeeded("insert transactions")
                 /\ UNCHANGED <<categories, savingsGoals>>
                 /\ ProcessData
              \/ /\ toast' = ErrorToast("Error adding transaction", "insert transactions")
                 /\ lastCall' = Failed("insert transactions")
                 /\ UNCHANGED <<dbTransactions, collVars, dashVars>>
    /\ UNCHANGED <<envVars, dbCategories, dbGoals, pc>>
    /\ UNCHANGED offDash

\* another session of the user deletes a transaction (handleDeleteTransaction)
OtherSessionDeletesTransaction ==
    /\ otherOps < MaxOtherOps
    /\ otherOps' = otherOps + 1
    /\ \E i \in 1..Len(dbTransactions) : dbTransactions' = RemoveAt(dbTransactions, i)
    /\ Quiet
    /\ UNCHANGED <<today, dbCategories, dbGoals, collVars, dashVars, pc>>
    /\ UNCHANGED offDash

\* another session of the user saves a category with the other type
\* (CategoriesPage.handleAddCategory, update branch)
OtherSessionEditsCategoryType ==
    /\ otherOps < MaxOtherOps
    /\ otherOps' = otherOps + 1
    /\ \E i \in 1..Len(dbCategories), type \in Types :
          /\ dbCategories[i].type # type
          /\ dbCategories' = [dbCategories EXCEPT ![i].type = type]
    /\ Quiet
    /\ UNCHANGED <<today, dbTransactions, dbGoals, collVars, dashVars, pc>>
    /\ UNCHANGED offDash

\* the backend rows a user may hold when the page mounts: every transaction
\* was entered through the form, with a category of its own type
TxOfCategories(cats, t) ==
    { TransactionRow(0, amount, cats[k].type, cats[k].id, date) :
          amount \in Amounts, k \in 1..Len(cats), date \in DatesAround(t) }

WithIds(rows) == [k \in 1..Len(rows) |-> [rows[k] EXCEPT !.id = k]]

TxLists(cats, t) ==
    { WithIds(rows) : rows \in UNION { [1..n -> TxOfCategories(cats, t)] : n \in 0..MaxTx } }

CategoryTables == { <<CategoryRow(1, a), CategoryRow(2, b)>> : a \in Types, b \in Types }

GoalRow(id, target_amount, current_amount) ==
    [id |-> id, target_amount |-> target_amount, current_amount |-> current_amount]

GoalTables == { <<GoalRow(1, 100, 50)>> }

\* no amount field is being filled in
FormIdle ==
    /\ field = "none"
    /\ text = <<>>
    /\ formValue = Null
    /\ formError = FALSE
    /\ issued = Null

\* no transaction form is open
TxFormIdle ==
    /\ variant = FALSE
    /\ formType = "expense"
    /\ formCategory = Null
    /\ filteredCategories = <<>>
    /\ submitted = Null

\* what a step that runs no backend command leaves in request
NoRequest == [command |-> "none"]

\* the form of the login page when nothing has been submitted
AuthFormIdle == [at |-> "idle", mode |-> "login", id |-> Null]

\* what a step that exports nothing leaves in download
NoDownload == [by |-> "none", file |-> Null]

\* no handler of a page is running, the reports page's filters are unset
\* the date range the reports page starts with: from the start of the previous
\* month to the end of the current one
InitialRange == [from |-> today - 1, to |-> today]

HandlersIdle ==
    /\ deleting = Null
    /\ download = NoDownload
    /\ categoryFilter = Null
    /\ typeFilter = "all"

\* no second session, no second run, no fetch and no submission is under way
LateIdle ==
    /\ otherGoals = <<>>
    /\ reload = "none"
    /\ dateRange = InitialRange
    /\ fetches = {}
    /\ isSubmitting = FALSE
    /\ awaited = Null

\* the provider has loaded the session of the signed-in user "a"
Authenticated ==
    /\ request = NoRequest
    /\ authUsers = {"a"}
    /\ authForm = AuthFormIdle
    /\ session = Some("a")
    /\ user = Some("a")
    /\ profile = Some("a")
    /\ isLoading = FALSE
    /\ authPc = "done"
    /\ pendingProfiles = {}
    /\ notified = 0
    /\ dbProfiles = {"a"}
    /\ loading = <<>>

SignedIn ==
    /\ HandlersIdle
    /\ LateIdle
    /\ Authenticated

\* the page has shown nothing yet and no call is under way
NothingShown ==
    /\ SignedIn
    /\ dbRows = {}
    /\ monthlyData = <<>>
    /\ categoryData = <<>>
    /\ stats = NoStats
    /\ budgetStatus = <<>>
    /\ preLoad = <<>>
    /\ pc = "idle"
    /\ toast = NoToast
    /\ lastCall = NoCall
    /\ otherOps = 0
    /\ current = Null
    /\ dialog = "none"

PageIdle ==
    /\ transactions = <<>>
    /\ categories = <<>>
    /\ savingsGoals = <<>>
    /\ dbInvestments = <<>>
    /\ investments = <<>>
    /\ NothingShown

ViewIdle == FormIdle /\ TxFormIdle /\ PageIdle

\* a user with categories opens the dashboard
DashInit ==
    /\ page = "dashboard"
    /\ today \in Todays
    /\ dbCategories \in CategoryTables
    /\ dbTransactions \in TxLists(dbCategories, today)
    /\ dbGoals \in GoalTables
    /\ ViewIdle

DashNext ==
    \/ DashFetchStart
    \/ DashCategoriesDone
    \/ DashTransactionsDone
    \/ DashGoalsDone
    \/ DashAddTransaction
    \/ OtherSessionDeletesTransaction
    \/ OtherSessionEditsCategoryType

SpecDash == DashInit /\ [][DashNext]_vars

\* a new user, without any row, opens the dashboard
NewUserInit ==
    /\ page = "dashboard"
    /\ today \in Todays
    /\ dbCategories = <<>>
    /\ dbTransactions = <<>>
    /\ dbGoals \in GoalTables \cup {<<>>}
    /\ ViewIdle

NewUserNext ==
    \/ DashFetchStart
    \/ DashCategoriesDone
    \/ DashCreateDefaults
    \/ DashNewCategoriesDone
    \/ DashTransactionsDone
    \/ DashGoalsDone
    \/ DashAddTransaction

SpecNewUser == NewUserInit /\ [][NewUserNext]_vars

---------------------------------------------------------------------------
(* The dashboard's summaries *)

RECURSIVE SumValues(_)
SumValues(s) == IF s = <<>> THEN 0 ELSE Head(s).value + SumValues(Tail(s))

\* the amounts of the transactions of one type dated in the calendar month d
TotalOf(txs, type, d) ==
    LET Matches(t) == t.type = type /\ t.date = d
    IN  SumAmounts(SelectSeq(txs, Matches))

\* the calendar month of the k-th of n buckets that end at the current month
BucketMonth(k, n) == today - (n - k)

\* C1: once the transactions have loaded, the monthly summary has exactly
\* ChartMonths buckets, one per consecutive calendar month ending at the
\* current month, oldest first, and a month without transactions has zero
\* totals; this is to hold for every list, the empty one included.
C1_SummaryHasNBuckets ==
    lastCall = Succeeded("select transactions") =>
        /\ Len(monthlyData) = ChartMonths
        /\ \A k \in 1..ChartMonths :
              LET d == BucketMonth(k, ChartMonths)
              IN  /\ monthlyData[k].name = getMonth(d) + 1
                  /\ (\A i \in 1..Len(transactions) : transactions[i].date # d)
                        => /\ monthlyData[k].income = 0
                           /\ monthlyData[k].expenses = 0
                           /\ monthlyData[k].balance = 0

\* C2: every bucket of the monthly summary shows, for its year and month, the
\* sum of the income transactions and the sum of the expense transactions of
\* the page's list, and their difference as balance.
C2_BucketTotals ==
    \A k \in 1..Len(monthlyData) :
        LET d == BucketMonth(k, Len(monthlyData))
        IN  /\ monthlyData[k].income = TotalOf(transactions, "income", d)
            /\ monthlyData[k].expenses = TotalOf(transactions, "expense", d)
            /\ monthlyData[k].balance = monthlyData[k].income - monthlyData[k].expenses

\* C3: after a complete load of a non-empty list, the totals of the category
\* summary add up to the sum of the amounts of all expense transactions.
C3_CategoryTotalsAddUp ==
    (lastCall = Succeeded("select savings_goals") /\ Len(transactions) > 0) =>
        SumValues(categoryData) = SumAmounts(SelectSeq(transactions, IsExpense))

\* C7: a backend call that failed has produced a destructive notification
\* that carries the error's message.
C7_FailureNotified ==
    lastCall.error =>
        /\ toast.variant = "destructive"
        /\ toast.description = ErrorMessage(lastCall.call)

---------------------------------------------------------------------------
(* BudgetPage *)

\* x rounded down, for x = num / den with den > 0
MathFloor(num, den) == num \div den

\* Math.round(x) for x = num / den with den > 0: the nearest integer, a half
\* rounded up
MathRound(num, den) == (2 * num + den) \div (2 * den)

\* !category.budget: no budget, or a budget of 0
HasBudget(category) == category.budget # Null /\ category.budget[1] # 0

getBudgetStatus(category, txs) ==
    IF ~HasBudget(category) THEN Null
    ELSE LET OfCategory(t) == t.category_id = category.id
             budget == category.budget[1]
             spent == SumAmounts(SelectSeq(txs, OfCategory))
             percentage == MathRound(spent * 100, budget)
         IN  Some([spent |-> spent,
                   remaining |-> budget - spent,
                   percentage |-> percentage,
                   status |-> IF percentage >= 90 THEN "danger"
                              ELSE IF percentage >= 75 THEN "warning"
                              ELSE "normal"])

\* the page renders: one budget status per category of the list
BudgetRender ==
    budgetStatus' = [k \in 1..Len(categories') |->
                         getBudgetStatus(categories'[k], transactions')]

\* the fetch effect starts
BudgetFetchStart ==
    /\ pc = "idle"
    /\ pc' = "categories"
    /\ preLoad' = <<categories, transactions>>
    /\ Quiet
    /\ UNCHANGED <<envVars, dbVars, collVars, budgetStatus>>
    /\ UNCHANGED offBudget

\* catch (error) of fetchData
BudgetFetchError(call) ==
    /\ toast' = ErrorToast("Error fetching data", call)
    /\ lastCall' = Failed(call)
    /\ pc' = "idle"
    /\ UNCHANGED <<envVars, dbVars, collVars, budgetVars>>

\* the select of the expense categories answers
BudgetCategoriesDone ==
    /\ pc = "categories"
    /\ \/ BudgetFetchError("select categories")
       \/ /\ categories' = SelectSeq(dbCategories, IsExpenseCategory)
          /\ lastCall' = Succeeded("select categories")
          /\ toast' = NoToast
          /\ pc' = "transactions"
          /\ UNCHANGED <<envVars, dbVars, transactions, savingsGoals, preLoad>>
          /\ BudgetRender
    /\ UNCHANGED offBudget

\* startOfMonth: the first day of the current month
StartOfMonth(t) == NewDate(getFullYear(t), getMonth(t))

\* .eq("type", "expense").gte("date", startOfMonth.toISOString())
SinceStartOfMonth(rows, t) ==
    LET Matches(r) == r.type = "expense" /\ r.date >= StartOfMonth(t)
    IN  SelectSeq(rows, Matches)

\* the transactions select answers
BudgetTransactionsDone ==
    /\ pc = "transactions"
    /\ \/ BudgetFetchError("select transactions")
       \/ /\ transactions' = SinceStartOfMonth(dbTransactions, today)
          /\ lastCall' = Succeeded("select transactions")
          /\ toast' = NoToast
          /\ pc' = "idle"
          /\ UNCHANGED <<envVars, dbVars, categories, savingsGoals, preLoad>>
          /\ BudgetRender
    /\ UNCHANGED offBudget

\* handleSetBudget with the values the budget form passed on: a category of
\* the list and a positive budget
Budgets == {50, 100}

SetBudget(rows, id, budget) ==
    [k \in 1..Len(rows) |->
        IF rows[k].id = id THEN [rows[k] EXCEPT !.budget = Some(budget)] ELSE rows[k]]

BudgetSetBudget ==
    /\ \E k \in 1..Len(categories), budget \in Budgets :
          \/ /\ dbCategories' = SetBudget(dbCategories, categories[k].id, budget)
             /\ categories' = SetBudget(categories, categories[k].id, budget)
             /\ toast' = SuccessToast("Budget updated")
             /\ lastCall' = Wrote("update categories", categories[k].id)
             /\ UNCHANGED <<transactions, savingsGoals>>
             /\ BudgetRender
          \/ /\ toast' = ErrorToast("Error updating budget", "update categories")
             /\ lastCall' = Failed("update categories")
             /\ UNCHANGED <<dbCategories, collVars, budgetStatus>>
    /\ UNCHANGED <<envVars, dbTransactions, dbGoals, pc, preLoad>>
    /\ UNCHANGED offBudget

\* the dates of the stored transactions: last month, this month, next month
DatesNear(t) == {t - 1, t, t + 1}

BudgetTxLists(cats, t) ==
    { WithIds(rows) :
        rows \in UNION { [1..n -> { TransactionRow(0, amount, cats[k].type, cats[k].id, date) :
                                       amount \in Amounts, k \in 1..Len(cats),
                                       date \in DatesNear(t) }] : n \in 0..MaxTx } }

BudgetCategoryTables ==
    { <<[CategoryRow(1, "expense") EXCEPT !.budget = a],
        [CategoryRow(2, type) EXCEPT !.budget = b]>> :
          a \in {Null, Some(100)}, b \in {Null}, type \in Types }

BudgetInit ==
    /\ page = "budget"
    /\ today \in Todays
    /\ dbCategories \in BudgetCategoryTables
    /\ dbTransactions \in BudgetTxLists(dbCategories, today)
    /\ dbGoals = <<>>
    /\ ViewIdle

BudgetNext ==
    \/ BudgetFetchStart
    \/ BudgetCategoriesDone
    \/ BudgetTransactionsDone
    \/ BudgetSetBudget

SpecBudget == BudgetInit /\ [][BudgetNext]_vars

\* one budgeted category, its expenses of the month and another category's
StatusInit ==
    /\ page = "budget"
    /\ today \in Todays
    /\ \E budget \in 1..MaxBudget :
          dbCategories = <<[CategoryRow(1, "expense") EXCEPT !.budget = Some(budget)],
                           CategoryRow(2, "expense")>>
    /\ \E amount \in 1..MaxAmount :
          dbTransactions \in { <<>>,
                               <<TransactionRow(1, amount, "expense", 1, today)>>,
                               <<TransactionRow(1, amount, "expense", 1, today),
                                 TransactionRow(2, 10, "expense", 2, today)>> }
    /\ dbGoals = <<>>
    /\ ViewIdle

StatusNext ==
    \/ BudgetFetchStart
    \/ BudgetCategoriesDone
    \/ BudgetTransactionsDone

SpecStatus == StatusInit /\ [][StatusNext]_vars

---------------------------------------------------------------------------
(* The budget page's statuses and loads *)

\* C4: for a category with a budget, percentage is spent / budget * 100
\* rounded to the nearest integer, remaining is budget - spent, and the status
\* is "danger" iff percentage >= 90, "warning" iff 75 <= percentage < 90 and
\* "normal" otherwise, so exactly one of the three.
C4_BudgetStatus ==
    \A k \in 1..Len(budgetStatus) :
        budgetStatus[k] # Null =>
            LET s == budgetStatus[k][1]
                budget == categories[k].budget[1]
            IN  /\ budget > 0 /\ s.spent >= 0
                /\ 2 * budget * s.percentage - budget <= 200 * s.spent
                /\ 200 * s.spent < 2 * budget * s.percentage + budget
                /\ s.remaining = budget - s.spent
                /\ s.status \in {"danger", "warning", "normal"}
                /\ s.status = "danger" <=> s.percentage >= 90
                /\ s.status = "warning" <=> (75 <= s.percentage /\ s.percentage < 90)
                /\ s.status = "normal" <=> s.percentage < 75

\* a status that is "warning" only because 74.5 and more rounds up to 75
C4_RoundedIntoWarning ==
    \E k \in 1..Len(budgetStatus) :
        /\ budgetStatus[k] # Null
        /\ budgetStatus[k][1].status = "warning"
        /\ 100 * budgetStatus[k][1].spent < 75 * categories[k].budget[1]

\* the amounts of the stored expense transactions of a category dated in the
\* calendar month d
SpentInMonth(id, d) ==
    LET Matches(t) == t.category_id = id /\ t.type = "expense" /\ t.date = d
    IN  SumAmounts(SelectSeq(dbTransactions, Matches))

\* C5: after a load, the spent amount of a category's budget status is the sum
\* of that category's expense transactions dated in the current calendar
\* month; no transaction of an earlier or a later month is counted.
C5_SpentIsOfThisMonth ==
    lastCall = Succeeded("select transactions") =>
        \A k \in 1..Len(budgetStatus) :
            budgetStatus[k] # Null =>
                budgetStatus[k][1].spent = SpentInMonth(categories[k].id, today)

\* C8: when a call of a load has failed, the page's collections are what they
\* were when the load started.
C8_FailedLoadAppliesNothing ==
    (lastCall.error /\ lastCall.call \in {"select categories", "select transactions"})
        => <<categories, transactions>> = preLoad

---------------------------------------------------------------------------
(* The entity pages: transactions, goals, investments, categories *)

\* { ...row, ...values }
Merge(row, values) ==
    [f \in DOMAIN row |-> IF f \in DOMAIN values THEN values[f] ELSE row[f]]

\* prev.map(row => row): every row takes the values
EditAll(rows, id, values) == [k \in 1..Len(rows) |-> Merge(rows[k], values)]

\* prev.map(row => row.id === id ? { ...row, ...values } : row), and in the
\* backend update(values).eq("id", id)
EditById(rows, id, values) ==
    [k \in 1..Len(rows) |->
        IF rows[k].id = id THEN Merge(rows[k], values) ELSE rows[k]]

\* insert(values).select(): the row as stored, with its new id
Inserted(rows, values) == [id |-> FreshId(rows)] @@ values

InvestmentRow(id, amount_invested, current_value) ==
    [id |-> id, amount_invested |-> amount_invested, current_value |-> current_value]

\* the collection the mounted page lists and edits
Listed ==
    CASE page = "transactions" -> transactions
      [] page = "goals" -> savingsGoals
      [] page = "investments" -> investments
      [] page = "categories" -> categories
      [] OTHER -> <<>>

\* the "Add ..." button: no current record, the form dialog opens
OpenAdd ==
    /\ page \in {"transactions", "goals", "investments", "categories"}
    /\ current' = Null
    /\ dialog' = "form"
    /\ Quiet
    /\ UNCHANGED <<envVars, dbVars, collVars, dashVars, budgetVars, pc>>
    /\ UNCHANGED <<page, dbInvestments, investments>>
    /\ UNCHANGED offCrud

\* handleEditTransaction, handleEditGoal, handleEditInvestment,
\* handleEditCategory: the record becomes current, the form dialog opens
OpenEdit ==
    /\ \E k \in 1..Len(Listed) : current' = Some(Listed[k])
    /\ dialog' = "form"
    /\ Quiet
    /\ UNCHANGED <<envVars, dbVars, collVars, dashVars, budgetVars, pc>>
    /\ UNCHANGED <<page, dbInvestments, investments>>
    /\ UNCHANGED offCrud

\* handleContributeToGoal
OpenContribute ==
    /\ page = "goals"
    /\ \E k \in 1..Len(savingsGoals) : current' = Some(savingsGoals[k])
    /\ dialog' = "contribute"
    /\ Quiet
    /\ UNCHANGED <<envVars, dbVars, collVars, dashVars, budgetVars, pc>>
    /\ UNCHANGED <<page, dbInvestments, investments>>
    /\ UNCHANGED offCrud

\* what every submit handler does after a successful write
CloseAfterSave ==
    /\ dialog' = "none"
    /\ current' = Null

\* TransactionsPage.handleAddTransaction with the values the form passed on
TransactionsAddTransaction ==
    /\ page = "transactions"
    /\ dialog = "form"
    /\ \E amount \in Amounts, k \in 1..Len(categories) :
          LET values == [amount |-> amount, type |-> categories[k].type,
                         category_id |-> categories[k].id, date |-> today]
          IN  IF current # Null
              THEN \/ /\ dbTransactions' = EditById(dbTransactions, current[1].id, values)
                      /\ transactions' = EditById(transactions, current[1].id, values)
                      /\ toast' = SuccessToast("Transaction updated")
                      /\ lastCall' = Wrote("update transactions", current[1].id)
                      /\ CloseAfterSave
                   \/ /\ toast' = ErrorToast("Error updating transaction", "update transactions")
                      /\ lastCall' = Failed("update transactions")
                      /\ UNCHANGED <<dbTransactions, transactions, current, dialog>>
              ELSE \/ /\ Len(dbTransactions) < MaxTx
                      /\ dbTransactions' = Append(dbTransactions, Inserted(dbTransactions, values))
                      /\ transactions' = <<Inserted(dbTransactions, values)>> \o transactions
                      /\ toast' = SuccessToast("Transaction added")
                      /\ lastCall' = Wrote("insert transactions", FreshId(dbTransactions))
                      /\ CloseAfterSave
                   \/ /\ toast' = ErrorToast("Error adding transaction", "insert transactions")
                      /\ lastCall' = Failed("insert transactions")
                      /\ UNCHANGED <<dbTransactions, transactions, current, dialog>>
    /\ UNCHANGED <<envVars, dbCategories, dbGoals, categories, savingsGoals>>
    /\ UNCHANGED <<dashVars, budgetVars, pc, page, dbInvestments, investments>>
    /\ UNCHANGED offCrud

GoalAmounts == {0, 50}

\* GoalsPage.handleAddGoal with the values the form passed on
GoalsAddGoal ==
    /\ page = "goals"
    /\ dialog = "form"
    /\ \E target_amount \in Amounts, current_amount \in GoalAmounts :
          LET values == [target_amount |-> target_amount, current_amount |-> current_amount]
          IN  IF current # Null
              THEN \/ /\ dbGoals' = EditById(dbGoals, current[1].id, values)
                      /\ savingsGoals' = EditById(savingsGoals, current[1].id, values)
                      /\ toast' = SuccessToast("Goal updated")
                      /\ lastCall' = Wrote("update savings_goals", current[1].id)
                      /\ CloseAfterSave
                   \/ /\ toast' = ErrorToast("Error saving goal", "update savings_goals")
                      /\ lastCall' = Failed("update savings_goals")
                      /\ UNCHANGED <<dbGoals, savingsGoals, current, dialog>>
              ELSE \/ /\ Len(dbGoals) < MaxRows
                      /\ dbGoals' = Append(dbGoals, Inserted(dbGoals, values))
                      /\ savingsGoals' = <<Inserted(dbGoals, values)>> \o savingsGoals
                      /\ toast' = SuccessToast("Goal created")
                      /\ lastCall' = Wrote("insert savings_goals", FreshId(dbGoals))
                      /\ CloseAfterSave
                   \/ /\ toast' = ErrorToast("Error saving goal", "insert savings_goals")
                      /\ lastCall' = Failed("insert savings_goals")
                      /\ UNCHANGED <<dbGoals, savingsGoals, current, dialog>>
    /\ UNCHANGED <<envVars, dbCategories, dbTransactions, categories, transactions>>
    /\ UNCHANGED <<dashVars, budgetVars, pc, page, dbInvestments, investments>>
    /\ UNCHANGED offCrud

\* a guard that lets an empty contribution through
IsContributionOrZero(contributionAmount) == contributionAmount >= 0

\* the amounts handleSaveContribution does not return on
IsContribution(contributionAmount) == contributionAmount > 0

\* const newAmount = currentGoal.current_amount + contributionAmount
newAmount(currentGoal, contributionAmount) ==
    currentGoal.current_amount + contributionAmount

\* the current amount a goal has in the backend
StoredAmount(id) ==
    LET k == CHOOSE k \in 1..Len(dbGoals) : dbGoals[k].id = id
    IN  dbGoals[k].current_amount

\* an update that adds the contribution to the amount the backend holds
StoredAfterIncrement(currentGoal, contributionAmount) ==
    EditById(dbGoals, currentGoal.id,
             [current_amount |-> StoredAmount(currentGoal.id) + contributionAmount])

\* .update({ current_amount: newAmount }).eq("id", currentGoal.id)
StoredAfterUpdate(currentGoal, contributionAmount) ==
    EditById(dbGoals, currentGoal.id,
             [current_amount |-> newAmount(currentGoal, contributionAmount)])

\* GoalsPage.handleSaveContribution; it returns at once unless the amount
\* entered is above 0
GoalsSaveContribution ==
    /\ page = "goals"
    /\ dialog = "contribute"
    /\ current # Null
    /\ \E contributionAmount \in Amounts \cup {0} :
          /\ IsContribution(contributionAmount)
          /\ newAmount(current[1], contributionAmount) <= MaxSaved
          /\ LET values == [current_amount |-> newAmount(current[1], contributionAmount)]
             IN  \/ /\ dbGoals' = StoredAfterUpdate(current[1], contributionAmount)
                    /\ savingsGoals' = EditById(savingsGoals, current[1].id, values)
                    /\ toast' = SuccessToast("Contribution added")
                    /\ lastCall' = Wrote("update savings_goals", current[1].id)
                    /\ CloseAfterSave
                 \/ /\ toast' = ErrorToast("Error adding contribution", "update savings_goals")
                    /\ lastCall' = Failed("update savings_goals")
                    /\ UNCHANGED <<dbGoals, savingsGoals, current, dialog>>
    /\ UNCHANGED <<envVars, dbCategories, dbTransactions, categories, transactions>>
    /\ UNCHANGED <<dashVars, budgetVars, pc, page, dbInvestments, investments>>
    /\ UNCHANGED offCrud

\* InvestmentsPage.handleAddInvestment with the values the form passed on
InvestmentsAddInvestment ==
    /\ page = "investments"
    /\ dialog = "form"
    /\ \E amount_invested \in Amounts, current_value \in Amounts :
          LET values == [amount_invested |-> amount_invested, current_value |-> current_value]
          IN  IF current # Null
              THEN \/ /\ dbInvestments' = EditById(dbInvestments, current[1].id, values)
                      /\ investments' = EditById(investments, current[1].id, values)
                      /\ toast' = SuccessToast("Investment updated")
                      /\ lastCall' = Wrote("update investments", current[1].id)
                      /\ CloseAfterSave
                   \/ /\ toast' = ErrorToast("Error saving investment", "update investments")
                      /\ lastCall' = Failed("update investments")
                      /\ UNCHANGED <<dbInvestments, investments, current, dialog>>
              ELSE \/ /\ Len(dbInvestments) < MaxRows
                      /\ dbInvestments' = Append(dbInvestments, Inserted(dbInvestments, values))
                      /\ investments' = <<Inserted(dbInvestments, values)>> \o investments
                      /\ toast' = SuccessToast("Investment added")
                      /\ lastCall' = Wrote("insert investments", FreshId(dbInvestments))
                      /\ CloseAfterSave
                   \/ /\ toast' = ErrorToast("Error saving investment", "insert investments")
                      /\ lastCall' = Failed("insert investments")
                      /\ UNCHANGED <<dbInvestments, investments, current, dialog>>
    /\ UNCHANGED <<envVars, dbVars, collVars, dashVars, budgetVars, pc, page>>
    /\ UNCHANGED offCrud

\* CategoriesPage.handleAddCategory with the values the form passed on; a new
\* category goes to the end of the list
CategoriesAddCategory ==
    /\ page = "categories"
    /\ dialog = "form"
    /\ \E type \in Types :
          LET values == [type |-> type]
          IN  IF current # Null
              THEN \/ /\ dbCategories' = EditById(dbCategories, current[1].id, values)
                      /\ categories' = EditById(categories, current[1].id, values)
                      /\ toast' = SuccessToast("Category updated")
                      /\ lastCall' = Wrote("update categories", current[1].id)
                      /\ CloseAfterSave
                   \/ /\ toast' = ErrorToast("Error saving category", "update categories")
                      /\ lastCall' = Failed("update categories")
                      /\ UNCHANGED <<dbCategories, categories, current, dialog>>
              ELSE \/ /\ Len(dbCategories) < MaxRows
                      /\ dbCategories' = Append(dbCategories, Inserted(dbCategories, values @@ [budget |-> Null]))
                      /\ categories' = Append(categories, Inserted(dbCategories, values @@ [budget |-> Null]))
                      /\ toast' = SuccessToast("Category created")
                      /\ lastCall' = Wrote("insert categories", FreshId(dbCategories))
                      /\ CloseAfterSave
                   \/ /\ toast' = ErrorToast("Error saving category", "insert categories")
                      /\ lastCall' = Failed("insert categories")
                      /\ UNCHANGED <<dbCategories, categories, current, dialog>>
    /\ UNCHANGED <<envVars, dbTransactions, dbGoals, transactions, savingsGoals>>
    /\ UNCHANGED <<dashVars, budgetVars, pc, page, dbInvestments, investments>>
    /\ UNCHANGED offCrud

\* BudgetPage.handleSetBudget, on the budget page
BudgetPageSetBudget ==
    /\ page = "budget"
    /\ BudgetSetBudget

Pages == {"transactions", "goals", "investments", "categories", "budget"}

RECURSIVE SumOf(_, _)
SumOf(rows, column) ==
    IF rows = <<>> THEN 0 ELSE Head(rows)[column] + SumOf(Tail(rows), column)

\* a quotient of two integers, kept exact as the pair it is computed from
Ratio(num, den) == [num |-> num, den |-> den]

\* what fetchInvestments passes to setStats
investmentStats(data) ==
    LET totalInvested == SumOf(data, "amount_invested")
        totalValue == SumOf(data, "current_value")
        totalReturn == totalValue - totalInvested
    IN  [totalInvested |-> totalInvested, totalValue |-> totalValue,
         totalReturn |-> totalReturn,
         returnPercentage |-> IF totalInvested > 0
                              THEN Ratio(totalReturn * 100, totalInvested)
                              ELSE Ratio(0, 1)]

\* what the page's load has put into its collections
Loaded(rows, pages) == IF page \in pages THEN rows ELSE <<>>

\* a page is mounted and its load has completed
CrudInit ==
    /\ today \in Todays
    /\ page \in Pages
    /\ dbCategories \in {<<CategoryRow(1, "expense")>>,
                         <<CategoryRow(1, "expense"), CategoryRow(2, "income")>>}
    /\ dbTransactions \in {<<>>, <<TransactionRow(1, 50, "expense", 1, today)>>}
    /\ dbGoals \in {<<>>, <<GoalRow(1, 100, 50)>>}
    /\ dbInvestments \in {<<>>, <<InvestmentRow(1, 100, 50)>>}
    /\ categories = IF page = "budget" THEN SelectSeq(dbCategories, IsExpenseCategory)
                    ELSE Loaded(dbCategories, {"transactions", "categories"})
    /\ transactions = IF page = "budget" THEN SinceStartOfMonth(dbTransactions, today)
                      ELSE Loaded(OrderByDateDesc(dbTransactions), {"transactions"})
    /\ savingsGoals = Loaded(dbGoals, {"goals"})
    /\ investments = Loaded(dbInvestments, {"investments"})
    /\ budgetStatus = [k \in 1..Len(categories) |-> getBudgetStatus(categories[k], transactions)]
    /\ monthlyData = <<>>
    /\ categoryData = <<>>
    /\ stats = IF page = "investments" THEN investmentStats(dbInvestments) ELSE NoStats
    /\ preLoad = <<>>
    /\ pc = "idle"
    /\ toast = NoToast
    /\ lastCall = NoCall
    /\ otherOps = 0
    /\ dbRows = {}
    /\ SignedIn
    /\ current = Null
    /\ dialog = "none"
    /\ FormIdle
    /\ TxFormIdle

CrudNext ==
    \/ OpenAdd
    \/ OpenEdit
    \/ OpenContribute
    \/ TransactionsAddTransaction
    \/ GoalsAddGoal
    \/ GoalsSaveContribution
    \/ InvestmentsAddInvestment
    \/ CategoriesAddCategory
    \/ BudgetPageSetBudget

SpecCrud == CrudInit /\ [][CrudNext]_vars

WriteCalls ==
    { op \o " " \o table : op \in {"insert", "update"},
                           table \in {"transactions", "savings_goals", "investments", "categories"} }

\* the four collections of the pages, by the table they list
Collections ==
    [transactions |-> transactions, savings_goals |-> savingsGoals,
     investments |-> investments, categories |-> categories]

TableOf(call) ==
    CHOOSE table \in DOMAIN Collections : \E op \in {"insert", "update"} : call = op \o " " \o table

WithoutId(rows, id) ==
    LET Other(r) == r.id # id
    IN  SelectSeq(rows, Other)

\* C6: a create, update, contribution or set-budget call that failed leaves
\* the four local collections as they were; one that succeeded leaves the
\* other collections as they were and, in its own collection, adds or replaces
\* the one record it wrote and leaves every other record as it was.
C6_WriteAppliedOnSuccessOnly ==
    [][ lastCall'.call \in WriteCalls =>
           IF lastCall'.error
           THEN Collections' = Collections
           ELSE \A table \in DOMAIN Collections :
                   IF table # TableOf(lastCall'.call)
                   THEN Collections'[table] = Collections[table]
                   ELSE /\ WithoutId(Collections'[table], lastCall'.id)
                             = WithoutId(Collections[table], lastCall'.id)
                        /\ Len(Collections'[table])
                             = Len(WithoutId(Collections'[table], lastCall'.id)) + 1
      ]_vars

\* a contribution has failed on a page that lists two goals
C6_FailedContribution ==
    /\ lastCall = Failed("update savings_goals")
    /\ toast.title = "Error adding contribution"
    /\ Len(savingsGoals) = 2

---------------------------------------------------------------------------
(* CurrencyInput and the validation of the forms' amount fields *)

\* a text is the sequence of its characters; the characters a user types
TypedChars == {"$", "-", ".", "0", "5"}
Texts == UNION { [1..n -> TypedChars] : n \in 0..MaxLen }

DigitValue ==
    [c \in {"0", "1", "2", "3", "4", "5", "6", "7", "8", "9"} |->
        CASE c = "0" -> 0 [] c = "1" -> 1 [] c = "2" -> 2 [] c = "3" -> 3
          [] c = "4" -> 4 [] c = "5" -> 5 [] c = "6" -> 6 [] c = "7" -> 7
          [] c = "8" -> 8 [] c = "9" -> 9]

IsDigit(c) == c \in DOMAIN DigitValue

\* a number is sign, digits and the count of digits after the point:
\* (-1)^neg * num / 10^exp; neg with num = 0 is the number -0
Number(neg, num, exp) == [neg |-> neg, num |-> num, exp |-> exp]
Zero == Number(FALSE, 0, 0)
NaN == [nan |-> TRUE]

\* x < 0 and x > 0 of the language: -0 is neither
IsNegative(x) == x.neg /\ x.num > 0
IsPositive(x) == ~x.neg /\ x.num > 0

\* str.replace(prefix, ""): the first occurrence goes
RECURSIVE RemoveFirst(_, _)
RemoveFirst(str, c) ==
    IF str = <<>> THEN <<>>
    ELSE IF Head(str) = c THEN Tail(str)
    ELSE <<Head(str)>> \o RemoveFirst(Tail(str), c)

\* .replace(/[^\d.-]/g, "")
IsKept(c) == IsDigit(c) \/ c = "." \/ c = "-"

RECURSIVE LeadingDigits(_)
LeadingDigits(str) ==
    IF str = <<>> \/ ~IsDigit(Head(str)) THEN <<>>
    ELSE <<Head(str)>> \o LeadingDigits(Tail(str))

RECURSIVE ToNat(_)
ToNat(digits) ==
    IF digits = <<>> THEN 0
    ELSE 10 * ToNat(SubSeq(digits, 1, Len(digits) - 1)) + DigitValue[digits[Len(digits)]]

\* parseFloat: the longest prefix that is a decimal literal, NaN without one
parseFloat(str) ==
    LET neg == str # <<>> /\ Head(str) = "-"
        body == IF neg THEN Tail(str) ELSE str
        int == LeadingDigits(body)
        rest == SubSeq(body, Len(int) + 1, Len(body))
        frac == IF rest # <<>> /\ Head(rest) = "." THEN LeadingDigits(Tail(rest)) ELSE <<>>
    IN  IF int = <<>> /\ frac = <<>> THEN NaN
        ELSE Number(neg, ToNat(int \o frac), Len(frac))

\* CurrencyInput.parseValue with prefix "$" and allowNegative false
parseValue(str) ==
    LET cleaned == SelectSeq(RemoveFirst(str, "$"), IsKept)
    IN  IF cleaned = <<>> \/ cleaned = <<"-">> THEN Null
        ELSE LET parsed == parseFloat(cleaned)
             IN  IF parsed = NaN THEN Null
                 ELSE IF IsNegative(parsed) THEN Some(Zero)
                 ELSE Some(parsed)

\* z.number().min(0)
IsNonNegativeNumber(value) == value # Null /\ ~IsNegative(value[1])

\* z.number().positive()
IsPositiveNumber(value) == value # Null /\ IsPositive(value[1])

\* value || 0
OrZero(value) == IF value = Null \/ value[1].num = 0 THEN Some(Zero) ELSE value

\* the amount fields validated as positive, and the writes that carry them
FieldCalls ==
    [amount |-> {"insert transactions", "update transactions"},
     target_amount |-> {"insert savings_goals", "update savings_goals"},
     amount_invested |-> {"insert investments", "update investments"},
     current_value |-> {"insert investments", "update investments"},
     budget |-> {"update categories"},
     contributionAmount |-> {"update savings_goals"}]

\* CurrencyInput.handleChange: the text of the change event is parsed and
\* handed to the form (field.onChange), a shown message is re-validated; the
\* contribution dialog keeps value || 0
FormChange ==
    /\ \E str \in Texts :
          /\ text' = str
          /\ formValue' = IF field = "contributionAmount" THEN OrZero(parseValue(str))
                          ELSE parseValue(str)
    /\ formError' = (formError /\ ~IsPositiveNumber(formValue'))
    /\ issued' = Null
    /\ Quiet
    /\ UNCHANGED <<envVars, dbVars, collVars, dashVars, budgetVars, crudVars, pc, offPages>>
    /\ UNCHANGED <<field, txFormVars>>

\* the form is submitted: form.handleSubmit validates and calls the handler
\* only with valid values; handleSaveContribution returns when the amount is
\* not above 0
FormSubmit ==
    /\ IF field = "contributionAmount"
       THEN /\ formError' = formError
            /\ IF ~IsPositive(formValue[1]) THEN issued' = Null
               ELSE \E call \in FieldCalls[field] :
                       issued' = Some([call |-> call, field |-> field, value |-> formValue[1]])
       ELSE IF IsPositiveNumber(formValue)
            THEN /\ formError' = FALSE
                 /\ \E call \in FieldCalls[field] :
                       issued' = Some([call |-> call, field |-> field, value |-> formValue[1]])
            ELSE /\ formError' = TRUE
                 /\ issued' = Null
    /\ Quiet
    /\ UNCHANGED <<envVars, dbVars, collVars, dashVars, budgetVars, crudVars, pc, offPages>>
    /\ UNCHANGED <<field, text, formValue, txFormVars>>

\* a form with an amount field opens: empty, or with the amount of the record
\* being edited; the contribution dialog opens with 0
FormInit ==
    /\ today = NewDate(2024, 0)
    /\ dbCategories = <<>>
    /\ dbTransactions = <<>>
    /\ dbGoals = <<>>
    /\ PageIdle
    /\ TxFormIdle
    /\ page = "none"
    /\ field \in DOMAIN FieldCalls
    /\ text = <<>>
    /\ formValue \in IF field = "contributionAmount" THEN {Some(Zero)}
                     ELSE {Null, Some(Number(FALSE, 50, 0))}
    /\ formError = FALSE
    /\ issued = Null

FormNext ==
    \/ FormChange
    \/ FormSubmit

SpecForm == FormInit /\ [][FormNext]_vars

\* C9: no write is issued that carries a value that is not above 0 in a field
\* validated as positive, whatever was typed into the currency input.
C9_NoNonPositiveIssued ==
    issued # Null => (~issued[1].value.neg /\ issued[1].value.num > 0)

\* a negative entry became 0 and the submission was refused with a message
C9_NegativeEntryRefused ==
    /\ field = "amount"
    /\ text = <<"$", "-", "5">>
    /\ formValue = Some(Zero)
    /\ formError
    /\ issued = Null

---------------------------------------------------------------------------
(* TransactionForm: the base form and the variant with the inline dialog *)

OfType(rows, type) ==
    LET Matches(c) == c.type = type
    IN  SelectSeq(rows, Matches)

\* categories.find(cat => cat.id === id)?.type: the type, or undefined
FoundType(rows, id) ==
    IF \E k \in 1..Len(rows) : rows[k].id = id
    THEN Some((CHOOSE c \in {rows[k] : k \in 1..Len(rows)} : c.id = id).type)
    ELSE Null

\* the effect's second half: a chosen category that is not found in the
\* categories prop with the watched type is reset to ""
KeptCategory(rows, type, category_id) ==
    IF category_id # Null /\ FoundType(rows, category_id[1]) # Some(type)
    THEN Null
    ELSE category_id

\* the user picks the other transaction type; the effect runs
TxFormSelectType ==
    /\ \E type \in Types :
          /\ type # formType
          /\ formType' = type
          /\ filteredCategories' = OfType(categories, type)
          /\ formCategory' = KeptCategory(categories, type, formCategory)
    /\ submitted' = Null
    /\ Quiet
    /\ UNCHANGED <<envVars, dbVars, collVars, dashVars, budgetVars, crudVars, pc, offPages>>
    /\ UNCHANGED <<formVars, variant>>

\* the user picks one of the categories the form offers
TxFormSelectCategory ==
    /\ \E k \in 1..Len(filteredCategories) :
          formCategory' = Some(filteredCategories[k].id)
    /\ submitted' = Null
    /\ Quiet
    /\ UNCHANGED <<envVars, dbVars, collVars, dashVars, budgetVars, crudVars, pc, offPages>>
    /\ UNCHANGED <<formVars, variant, formType, filteredCategories>>

\* handleAddCategory of the inline dialog, whose own type field the user sets
TxFormAddCategory ==
    /\ variant
    /\ Len(dbCategories) < MaxCategories
    /\ \E type \in Types :
          LET row == CategoryRow(FreshId(dbCategories), type)
          IN  \/ /\ dbCategories' = Append(dbCategories, row)
                 /\ filteredCategories' = Append(filteredCategories, row)
                 /\ formCategory' = Some(row.id)
                 /\ toast' = SuccessToast("Category created")
                 /\ lastCall' = Wrote("insert categories", row.id)
              \/ /\ toast' = ErrorToast("Error creating category", "insert categories")
                 /\ lastCall' = Failed("insert categories")
                 /\ UNCHANGED <<dbCategories, filteredCategories, formCategory>>
    /\ submitted' = Null
    /\ UNCHANGED <<envVars, dbTransactions, dbGoals, collVars, dashVars, budgetVars, crudVars, pc, offPages>>
    /\ UNCHANGED <<formVars, variant, formType>>

\* form.handleSubmit(onSubmit): a category must be chosen
TxFormSubmit ==
    /\ formCategory # Null
    /\ submitted' = Some([type |-> formType, category_id |-> formCategory[1]])
    /\ Quiet
    /\ UNCHANGED <<envVars, dbVars, collVars, dashVars, budgetVars, crudVars, pc, offPages>>
    /\ UNCHANGED <<formVars, variant, formType, formCategory, filteredCategories>>

\* the form has mounted with its default values, or with those of the
\* transaction being edited, and its effect has run once
TxFormInit ==
    /\ today = NewDate(2024, 0)
    /\ dbCategories \in CategoryTables
    /\ dbTransactions = <<>>
    /\ dbGoals = <<>>
    /\ dbInvestments = <<>>
    /\ transactions = <<>>
    /\ categories \in {<<>>, dbCategories}
    /\ savingsGoals = <<>>
    /\ investments = <<>>
    /\ NothingShown
    /\ FormIdle
    /\ page = "transactions"
    /\ variant \in BOOLEAN
    /\ formType \in Types
    /\ \E category_id \in {Null} \cup {Some(id) : id \in Ids(dbCategories)} :
          formCategory = KeptCategory(categories, formType, category_id)
    /\ filteredCategories = OfType(categories, formType)
    /\ submitted = Null

\* the page's load delivers the categories prop; the effect runs
TxFormCategoriesLoaded ==
    /\ categories = <<>>
    /\ categories' = dbCategories
    /\ filteredCategories' = OfType(categories', formType)
    /\ formCategory' = KeptCategory(categories', formType, formCategory)
    /\ submitted' = Null
    /\ toast' = NoToast
    /\ lastCall' = Succeeded("select categories")
    /\ UNCHANGED <<envVars, dbVars, transactions, savingsGoals, dashVars, budgetVars, crudVars, pc, offPages>>
    /\ UNCHANGED <<formVars, variant, formType>>

TxFormNext ==
    \/ TxFormCategoriesLoaded
    \/ TxFormSelectType
    \/ TxFormSelectCategory
    \/ TxFormAddCategory
    \/ TxFormSubmit

SpecTxForm == TxFormInit /\ [][TxFormNext]_vars

\* the type of the stored category with this id
StoredType(id) == FoundType(dbCategories, id)

\* C10: the values the transaction form submits name a category whose type is
\* the submitted transaction type.
C10_SubmittedCategoryOfOwnType ==
    submitted # Null => StoredType(submitted[1].category_id) = Some(submitted[1].type)

---------------------------------------------------------------------------
(* AuthProvider and the views' guards *)

MaxNotifications == 2

\* the users of the backend; a session is known by the user it belongs to,
\* and a profile row by its id
Users == {"a", "b"}
Sessions == {Some(u) : u \in Users}

Views == {"dashboard", "transactions", "goals", "categories", "investments",
          "reports", "budget"}

\* where getSession is, and the user id its profile query carries
AuthAt(at, id) == [at |-> at, id |-> id]

\* the redirect effect of the mounted view, run after the render the step causes
RedirectEffect ==
    page' = IF page \in Views /\ ~isLoading' /\ user' = Null THEN "login" ELSE page

\* .single() of the profile query: the row with this id, or no data
ProfileRow(id) == IF id \in dbProfiles THEN Some(id) ELSE Null

\* what a resolved supabase.auth.getSession() is recorded as
GotSession(error, data) ==
    [call |-> "auth.getSession", error |-> error, session |-> data]

\* supabase.auth.getSession() resolves: with an error, without a session, or
\* with a session
AuthGetSessionDone ==
    /\ authPc.at = "getSession"
    /\ \/ /\ \E error \in BOOLEAN : lastCall' = GotSession(error, Null)
          /\ isLoading' = FALSE
          /\ authPc' = AuthAt("done", Null)
          /\ UNCHANGED <<session, user>>
       \/ /\ \E s \in Sessions :
               /\ session' = s
               /\ user' = s
               /\ authPc' = AuthAt("profile", s[1])
               /\ lastCall' = GotSession(FALSE, s)
          /\ UNCHANGED isLoading
    /\ toast' = NoToast
    /\ issued' = Null
    /\ RedirectEffect
    /\ UNCHANGED <<profile, pendingProfiles, notified, dbProfiles, loading>>
    /\ UNCHANGED offAuth

\* getSession without its finally: a failed profile query leaves isLoading set
AuthGetProfileNoFinally ==
    /\ authPc.at = "profile"
    /\ \E data \in {ProfileRow(authPc.id), Null} :
          /\ profile' = IF data # Null THEN data ELSE profile
          /\ lastCall' = IF data # Null THEN Succeeded("select profiles")
                         ELSE Failed("select profiles")
          /\ isLoading' = IF data # Null THEN FALSE ELSE isLoading
    /\ authPc' = AuthAt("done", Null)
    /\ toast' = NoToast
    /\ issued' = Null
    /\ UNCHANGED <<session, user>>
    /\ RedirectEffect
    /\ UNCHANGED <<pendingProfiles, notified, dbProfiles, loading>>
    /\ UNCHANGED offAuth

\* the profile query of getSession resolves, with the row or with an error
AuthGetProfileDone ==
    /\ authPc.at = "profile"
    /\ \E data \in {ProfileRow(authPc.id), Null} :
          /\ profile' = IF data # Null THEN data ELSE profile
          /\ lastCall' = IF data # Null THEN Succeeded("select profiles")
                         ELSE Failed("select profiles")
    /\ isLoading' = FALSE
    /\ authPc' = AuthAt("done", Null)
    /\ toast' = NoToast
    /\ issued' = Null
    /\ UNCHANGED <<session, user>>
    /\ RedirectEffect
    /\ UNCHANGED <<pendingProfiles, notified, dbProfiles, loading>>
    /\ UNCHANGED offAuth

\* what a delivered notification is recorded as
Notified(newSession) ==
    [call |-> "onAuthStateChange", error |-> FALSE, session |-> newSession]

\* the callback without its else branch: a null session leaves the profile
AuthStateChangeKeepsProfile ==
    /\ notified < MaxNotifications
    /\ notified' = notified + 1
    /\ \E newSession \in Sessions \cup {Null} :
          /\ session' = newSession
          /\ user' = newSession
          /\ pendingProfiles' = IF newSession # Null
                                 THEN pendingProfiles \cup {newSession[1]}
                                 ELSE pendingProfiles
          /\ lastCall' = Notified(newSession)
    /\ toast' = NoToast
    /\ issued' = Null
    /\ UNCHANGED <<profile, isLoading, authPc>>
    /\ RedirectEffect
    /\ UNCHANGED <<dbProfiles, loading>>
    /\ UNCHANGED offAuth

\* the onAuthStateChange callback runs up to its await
AuthStateChange ==
    /\ notified < MaxNotifications
    /\ notified' = notified + 1
    /\ \E newSession \in Sessions \cup {Null} :
          /\ session' = newSession
          /\ user' = newSession
          /\ IF newSession # Null
             THEN /\ pendingProfiles' = pendingProfiles \cup {newSession[1]}
                  /\ UNCHANGED profile
             ELSE /\ profile' = Null
                  /\ UNCHANGED pendingProfiles
          /\ lastCall' = Notified(newSession)
    /\ toast' = NoToast
    /\ issued' = Null
    /\ UNCHANGED <<isLoading, authPc>>
    /\ RedirectEffect
    /\ UNCHANGED <<dbProfiles, loading>>
    /\ UNCHANGED offAuth

\* what a resolved profile query of the callback is recorded as
FetchedProfile(id, data) ==
    [call |-> "select profiles", error |-> data = Null, id |-> id, data |-> data]

\* the callback's profile query resolves: setProfile(profileData)
AuthProfileFetched ==
    /\ \E id \in pendingProfiles :
          /\ pendingProfiles' = pendingProfiles \ {id}
          /\ \E data \in {ProfileRow(id), Null} :
                /\ profile' = data
                /\ lastCall' = FetchedProfile(id, data)
    /\ toast' = NoToast
    /\ issued' = Null
    /\ UNCHANGED <<session, user, isLoading, authPc, notified>>
    /\ RedirectEffect
    /\ UNCHANGED <<dbProfiles, loading>>
    /\ UNCHANGED offAuth

\* how supabase.auth.signOut() ends: it resolves without an error, resolves
\* with { error }, or rejects
SignOutOutcomes == {"ok", "error returned", "thrown"}

\* signOut of the provider
AuthSignOut ==
    /\ \E outcome \in SignOutOutcomes :
          /\ lastCall' = [call |-> "auth.signOut", error |-> outcome # "ok",
                          outcome |-> outcome]
          /\ IF outcome = "thrown"
             THEN /\ toast' = ErrorToast("Error signing out", "auth.signOut")
                  /\ UNCHANGED <<session, user, profile>>
             ELSE /\ session' = Null
                  /\ user' = Null
                  /\ profile' = Null
                  /\ toast' = SuccessToast("Signed out successfully")
    /\ issued' = Null
    /\ UNCHANGED <<isLoading, authPc, pendingProfiles, notified>>
    /\ RedirectEffect
    /\ UNCHANGED <<dbProfiles, loading>>
    /\ UNCHANGED offAuth

\* no view is mounted, nothing is shown
NoView ==
    /\ today = NewDate(2024, 0)
    /\ dbCategories = <<>>
    /\ dbTransactions = <<>>
    /\ dbGoals = <<>>
    /\ dbInvestments = <<>>
    /\ transactions = <<>>
    /\ categories = <<>>
    /\ savingsGoals = <<>>
    /\ investments = <<>>
    /\ monthlyData = <<>>
    /\ categoryData = <<>>
    /\ stats = NoStats
    /\ budgetStatus = <<>>
    /\ preLoad = <<>>
    /\ pc = "idle"
    /\ toast = NoToast
    /\ lastCall = NoCall
    /\ otherOps = 0
    /\ current = Null
    /\ dialog = "none"
    /\ FormIdle
    /\ TxFormIdle

\* the provider mounts: its state is the useState defaults, getSession is
\* under way
AuthMounted ==
    /\ HandlersIdle
    /\ LateIdle
    /\ dbRows = {}
    /\ request = NoRequest
    /\ authUsers = {"a"}
    /\ authForm = AuthFormIdle
    /\ session = Null
    /\ user = Null
    /\ profile = Null
    /\ isLoading = TRUE
    /\ authPc = AuthAt("getSession", Null)
    /\ pendingProfiles = {}
    /\ notified = 0

AuthInit ==
    /\ NoView
    /\ AuthMounted
    /\ page = "none"
    /\ dbProfiles \in SUBSET Users
    /\ loading = <<>>

AuthNext ==
    \/ AuthGetSessionDone
    \/ AuthGetProfileDone
    \/ AuthStateChange
    \/ AuthProfileFetched
    \/ AuthSignOut

SpecAuth == AuthInit /\ [][AuthNext]_vars

\* an awaited call of getSession resolves or rejects: the function goes on
AuthFairness ==
    /\ WF_vars(AuthGetSessionDone)
    /\ WF_vars(AuthGetProfileDone)

SpecAuthLive == SpecAuth /\ AuthFairness

\* a step in which getSession received a session sets session and user to it
\* and goes on to the profile of its user
SessionStored ==
    (lastCall'.call = "auth.getSession" /\ lastCall'.session # Null) =>
        /\ session' = lastCall'.session
        /\ user' = lastCall'.session
        /\ authPc' = AuthAt("profile", lastCall'.session[1])

\* a step in which the profile query of getSession received a row stores the
\* row of the session's user
ProfileStored ==
    (authPc.at = "profile" /\ lastCall' = Succeeded("select profiles")) =>
        /\ authPc.id \in dbProfiles
        /\ profile' = Some(authPc.id)

\* C12: when getSession returns a session, session and user are set to it;
\* when its profile query returns the row of that session's user, the row is
\* stored as the profile; and whatever the two calls return, isLoading
\* becomes false and stays so.
C12_SessionLoaded ==
    /\ [][SessionStored /\ ProfileStored]_vars
    /\ <>[](isLoading = FALSE)

\* the profile query of getSession failed and loading has finished
C12_LoadedDespiteProfileError ==
    /\ lastCall = Failed("select profiles")
    /\ session # Null
    /\ isLoading = FALSE

\* the selects a view's load makes, in the order it awaits them
LoadTables(view) ==
    CASE view = "dashboard"    -> <<"categories", "transactions", "savings_goals">>
      [] view = "transactions" -> <<"categories", "transactions">>
      [] view = "reports"      -> <<"categories", "transactions">>
      [] view = "budget"       -> <<"categories", "transactions">>
      [] view = "categories"   -> <<"categories">>
      [] view = "goals"        -> <<"savings_goals">>
      [] view = "investments"  -> <<"investments">>

ViewCall(call, view) == [call |-> call, view |-> view]

LoadCalls(view) ==
    [k \in 1..Len(LoadTables(view)) |-> ViewCall("select " \o LoadTables(view)[k], view)]

\* the router mounts a view; its redirect effect runs
ViewNavigate ==
    /\ loading = <<>>
    /\ \E view \in Views :
          page' = IF ~isLoading /\ user = Null THEN "login" ELSE view
    /\ Quiet
    /\ issued' = Null
    /\ UNCHANGED <<authVars, loading>>
    /\ UNCHANGED offAuth

\* the fetch effect of the mounted view: if (!user) return; then the load
\* runs up to its first await
ViewFetchEffect ==
    /\ page \in Views
    /\ loading = <<>>
    /\ IF user = Null
       THEN /\ issued' = Null
            /\ UNCHANGED loading
       ELSE /\ issued' = Some(Head(LoadCalls(page)))
            /\ loading' = LoadCalls(page)
    /\ Quiet
    /\ UNCHANGED <<authVars, page>>
    /\ UNCHANGED offAuth

\* the select the load awaits resolves; the load goes on to its next select,
\* or to its catch
ViewLoadStep ==
    /\ loading # <<>>
    /\ \/ /\ lastCall' = Succeeded(Head(loading).call)
          /\ loading' = Tail(loading)
          /\ issued' = IF Tail(loading) # <<>> THEN Some(Head(Tail(loading))) ELSE Null
          /\ toast' = NoToast
       \/ /\ lastCall' = Failed(Head(loading).call)
          /\ loading' = <<>>
          /\ issued' = Null
          /\ toast' = ErrorToast("Error loading data", Head(loading).call)
    /\ UNCHANGED <<authVars, page>>
    /\ UNCHANGED offAuth

\* a submit or delete handler of the mounted view: if (!user) return; then
\* its write is sent
ViewMutate ==
    /\ page \in Views \ {"reports"}
    /\ issued' = IF user = Null THEN Null ELSE Some(ViewCall("write", page))
    /\ Quiet
    /\ UNCHANGED <<authVars, page, loading>>
    /\ UNCHANGED offAuth

\* the application starts on one of the views' routes
GuardInit ==
    /\ NoView
    /\ AuthMounted
    /\ page \in Views
    /\ dbProfiles = Users
    /\ loading = <<>>

GuardNext ==
    \/ AuthGetSessionDone
    \/ AuthGetProfileDone
    \/ AuthStateChange
    \/ AuthProfileFetched
    \/ AuthSignOut
    \/ ViewNavigate
    \/ ViewFetchEffect
    \/ ViewLoadStep
    \/ ViewMutate

SpecGuard == GuardInit /\ [][GuardNext]_vars

\* C11: a view is mounted only while auth is loading or a user is present
\* (otherwise it has navigated to /login), and a step sends a data-fetch or
\* mutation call only while a user is present.
C11_GuardedViews ==
    /\ page \in Views => (isLoading \/ user # Null)
    /\ issued # Null => user # Null

\* the step that delivers a notification sets session and user to the
\* notified session and its user; a null session clears the profile, another
\* one starts the profile query for its user
NotificationStored ==
    lastCall'.call = "onAuthStateChange" =>
        /\ session' = lastCall'.session
        /\ user' = lastCall'.session
        /\ lastCall'.session = Null => profile' = Null
        /\ lastCall'.session # Null => lastCall'.session[1] \in pendingProfiles'

\* the step that completes a notification's profile query makes profile what
\* the query returned: the row whose id is the notified session's user, if
\* it returned one
NotificationProfileStored ==
    (lastCall'.call = "select profiles" /\ "data" \in DOMAIN lastCall') =>
        /\ lastCall'.id \in pendingProfiles
        /\ profile' = lastCall'.data
        /\ lastCall'.data # Null =>
               /\ lastCall'.data = Some(lastCall'.id)
               /\ lastCall'.id \in dbProfiles

\* C13: processing an auth-state-change notification sets session and user to
\* the notified session and its user; for a null session the profile is null
\* as well; for a non-null session the profile becomes the row the profile
\* query fetched for that session's user.
C13_NotificationApplied == [][NotificationStored /\ NotificationProfileStored]_vars

\* a notification with the session of user b has been processed to its end
C13_ProfileOfNotifiedUser ==
    /\ lastCall = FetchedProfile("b", Some("b"))
    /\ session = Some("b")
    /\ user = Some("b")
    /\ profile = Some("b")

\* a signOut whose backend call succeeded clears the three and shows the
\* success notification; one whose backend call failed leaves the three as
\* they were and shows an error notification
SignOutApplied ==
    lastCall'.call = "auth.signOut" =>
        IF lastCall'.error
        THEN /\ UNCHANGED <<session, user, profile>>
             /\ toast'.variant = "destructive"
        ELSE /\ session' = Null
             /\ user' = Null
             /\ profile' = Null
             /\ toast' = SuccessToast("Signed out successfully")

\* C14: signOut clears session, user and profile and shows a success
\* notification when the backend sign-out succeeds; when it fails, the three
\* are left unchanged and an error notification is shown.
C14_SignOutOutcome == [][SignOutApplied]_vars

---------------------------------------------------------------------------
(* Row level security of the backend's tables *)

MaxDbRows == 2

Tables == {"profiles", "categories", "transactions", "savings_goals", "investments"}
Commands == {"SELECT", "INSERT", "UPDATE", "DELETE"}

\* CREATE POLICY ... ON table FOR command USING (using) WITH CHECK (check);
\* "owner" stands for the expression auth.uid() = user_id (auth.uid() = id on
\* profiles), "none" for a clause the statement does not have
Policy(table, command, using, check) ==
    [table |-> table, command |-> command, using |-> using, check |-> check]

OwnerPolicies(table) ==
    { Policy(table, "SELECT", "owner", "none"),
      Policy(table, "INSERT", "none", "owner"),
      Policy(table, "UPDATE", "owner", "none"),
      Policy(table, "DELETE", "owner", "none") }

Policies ==
    { Policy("profiles", "SELECT", "owner", "none"),
      Policy("profiles", "UPDATE", "owner", "none") }
    \cup OwnerPolicies("categories")
    \cup OwnerPolicies("transactions")
    \cup OwnerPolicies("savings_goals")
    \cup OwnerPolicies("investments")

\* a row: its table, its primary key, its owner column and the rest of it.
\* On profiles the primary key is the owner column, and id is 0.
RowIds == 1..MaxDbRows
RowValues == {0, 1}
Row(table, id, owner, value) ==
    [table |-> table, id |-> id, owner |-> owner, value |-> value]
KeyOf(row) == <<row.table, row.id, IF row.table = "profiles" THEN row.owner ELSE "">>

\* auth.uid() = owner column; a comparison with a null uid is not true
OwnerIs(uid, row) == uid # Null /\ uid[1] = row.owner

Holds(expression, uid, row) ==
    IF expression = "owner" THEN OwnerIs(uid, row) ELSE TRUE

\* the check of new rows that only the policy's own WITH CHECK clause gives
ExplicitCheck(policy) == policy.check

\* the expression a policy checks new rows with: its WITH CHECK clause, and
\* its USING clause when it has none
WithCheck(policy) == IF policy.check = "none" THEN policy.using ELSE policy.check

PoliciesFor(table, command) ==
    {policy \in Policies : policy.table = table /\ policy.command = command}

\* row level security is enabled on all five tables: a row passes when one of
\* the command's policies passes it, and no policy means no row
UsingPasses(uid, command, row) ==
    \E policy \in PoliciesFor(row.table, command) : Holds(policy.using, uid, row)

CheckPasses(uid, command, row) ==
    \E policy \in PoliciesFor(row.table, command) : Holds(WithCheck(policy), uid, row)

RowsOf(table) == {row \in dbRows : row.table = table}

\* the command the last step ran: who ran it, the rows it returned or
\* changed, and whether it was refused
Ran(uid, command, table, rows, error) ==
    [command |-> command, uid |-> uid, table |-> table, rows |-> rows, error |-> error]

Uids == {Null} \cup {Some(u) : u \in Users}

\* one run keeps to one table: no policy reads another table
OneTable(table) == \A row \in dbRows : row.table = table

\* the ids a command's filter can name
Filters == {{1}, {2}, 0..MaxDbRows}

RlsSelect ==
    \E uid \in Uids, table \in Tables :
        /\ OneTable(table)
        /\ request' = Ran(uid, "SELECT", table,
                          {row \in RowsOf(table) : UsingPasses(uid, "SELECT", row)}, FALSE)
        /\ UNCHANGED dbRows

RlsInsert ==
    \E uid \in Uids, table \in Tables, owner \in Users, value \in RowValues :
      \E id \in IF table = "profiles" THEN {0} ELSE RowIds :
        LET row == Row(table, id, owner, value)
            ok  == /\ CheckPasses(uid, "INSERT", row)
                   /\ \A other \in dbRows : KeyOf(other) # KeyOf(row)
        IN  /\ OneTable(table)
            /\ Cardinality(dbRows) < MaxDbRows
            /\ dbRows' = IF ok THEN dbRows \cup {row} ELSE dbRows
            /\ request' = Ran(uid, "INSERT", table, IF ok THEN {row} ELSE {}, ~ok)

\* UPDATE table SET owner column = owner, value = value WHERE id IN filter
RlsUpdate ==
    \E uid \in Uids, table \in Tables, filter \in Filters :
      \E owner \in Users \cup {"same"}, value \in RowValues :
        LET targets == {row \in RowsOf(table) :
                           /\ row.id \in filter
                           /\ UsingPasses(uid, "SELECT", row)
                           /\ UsingPasses(uid, "UPDATE", row)}
            New(row) == [row EXCEPT !.owner = IF owner = "same" THEN @ ELSE owner,
                                    !.value = value]
            news    == {New(row) : row \in targets}
            rest    == dbRows \ targets
            ok      == /\ \A row \in news : CheckPasses(uid, "UPDATE", row)
                       /\ Cardinality(news) = Cardinality(targets)
                       /\ \A row \in news, other \in rest : KeyOf(other) # KeyOf(row)
        IN  /\ OneTable(table)
            /\ dbRows' = IF ok THEN rest \cup news ELSE dbRows
            /\ request' = Ran(uid, "UPDATE", table, IF ok THEN targets ELSE {}, ~ok)

RlsDelete ==
    \E uid \in Uids, table \in Tables, filter \in Filters :
        LET targets == {row \in RowsOf(table) :
                           /\ row.id \in filter
                           /\ UsingPasses(uid, "SELECT", row)
                           /\ UsingPasses(uid, "DELETE", row)}
        IN  /\ OneTable(table)
            /\ dbRows' = dbRows \ targets
            /\ request' = Ran(uid, "DELETE", table, targets, FALSE)

\* what the tables hold before the commands: rows the owners have, put there
\* by the service role where no policy lets the owner insert
StoredRows ==
    { rows \in SUBSET { Row(table, id, owner, 0) :
                          table \in Tables, id \in {0, 1}, owner \in Users } :
        /\ Cardinality(rows) <= 1
        /\ \A row \in rows : (row.id = 0) = (row.table = "profiles") }

RlsInit ==
    /\ NoView
    /\ SignedIn
    /\ page = "none"
    /\ dbRows \in StoredRows

RlsStep ==
    \/ RlsSelect
    \/ RlsInsert
    \/ RlsUpdate
    \/ RlsDelete

RlsNext ==
    /\ RlsStep
    /\ UNCHANGED <<pageSide, toast, lastCall, page, issued>>
    /\ UNCHANGED <<authVars, loading, authUsers, authForm, lateVars>>

SpecRls == RlsInit /\ [][RlsNext]_vars

\* the rows a step put into the tables, took out of them, or returned
Touched == (dbRows' \ dbRows) \cup (dbRows \ dbRows') \cup request'.rows

---------------------------------------------------------------------------
(* AuthForm *)

AuthFormAt(at, mode, id) == [at |-> at, mode |-> mode, id |-> id]

\* navigate(path) from the login page: the view mounts, its redirect effect runs
NavigateTo(view) ==
    page' = IF ~isLoading' /\ user' = Null THEN "login" ELSE view

\* onSubmit runs up to its first await
AuthFormSubmit ==
    /\ page = "login"
    /\ authForm.at = "idle"
    /\ \E mode \in {"login", "register"} : authForm' = AuthFormAt("auth", mode, Null)
    /\ Quiet
    /\ issued' = Null
    /\ UNCHANGED <<authVars, page, loading, dbRows, request, authUsers>>
    /\ UNCHANGED pageSide

\* supabase.auth.signInWithPassword resolves
AuthFormSignedIn ==
    /\ authForm = AuthFormAt("auth", "login", Null)
    /\ \/ /\ \E u \in authUsers : session' = Some(u)
          /\ lastCall' = Succeeded("auth.signInWithPassword")
          /\ toast' = SuccessToast("Logged in successfully")
          /\ UNCHANGED <<user, isLoading>>
          /\ NavigateTo("dashboard")
       \/ /\ lastCall' = Failed("auth.signInWithPassword")
          /\ toast' = ErrorToast("Error", "auth.signInWithPassword")
          /\ UNCHANGED <<session, page>>
    /\ authForm' = AuthFormIdle
    /\ issued' = Null
    /\ UNCHANGED <<user, profile, isLoading, authPc, pendingProfiles, notified, dbProfiles>>
    /\ UNCHANGED <<loading, dbRows, request, authUsers>>
    /\ UNCHANGED pageSide

\* supabase.auth.signUp resolves: with an error, with a new user and a
\* session, or with a new user who has to confirm the address first
AuthFormSignedUp ==
    /\ authForm = AuthFormAt("auth", "register", Null)
    /\ \/ /\ lastCall' = Failed("auth.signUp")
          /\ toast' = ErrorToast("Error", "auth.signUp")
          /\ authForm' = AuthFormIdle
          /\ UNCHANGED authUsers
       \/ /\ \E u \in Users \ authUsers :
               /\ authUsers' = authUsers \cup {u}
               /\ \/ authForm' = AuthFormAt("profile", "register", Some(u))
                  \/ authForm' = AuthFormIdle
          /\ lastCall' = Succeeded("auth.signUp")
          /\ toast' = NoToast
    /\ issued' = Null
    /\ UNCHANGED <<authVars, page, loading, dbRows, request>>
    /\ UNCHANGED pageSide

\* the insert into profiles resolves; the new user runs it
AuthFormProfileInserted ==
    /\ authForm.at = "profile"
    /\ LET id == authForm.id[1]
           ok == /\ CheckPasses(Some(id), "INSERT", Row("profiles", 0, id, 0))
                 /\ id \notin dbProfiles
       IN  \/ /\ ok
              /\ dbProfiles' = dbProfiles \cup {id}
              /\ session' = Some(id)
              /\ lastCall' = Succeeded("insert profiles")
              /\ toast' = SuccessToast("Account created successfully")
              /\ UNCHANGED <<user, isLoading>>
              /\ NavigateTo("dashboard")
           \/ /\ lastCall' = Failed("insert profiles")
              /\ toast' = ErrorToast("Error", "insert profiles")
              /\ UNCHANGED <<dbProfiles, session, page>>
    /\ authForm' = AuthFormIdle
    /\ issued' = Null
    /\ UNCHANGED <<user, profile, isLoading, authPc, pendingProfiles, notified>>
    /\ UNCHANGED <<loading, dbRows, request, authUsers>>
    /\ UNCHANGED pageSide

\* the login page is open; user a has signed up before and has a profile row
SignUpInit ==
    /\ NoView
    /\ AuthMounted
    /\ page = "login"
    /\ dbProfiles = {"a"}
    /\ loading = <<>>

SignUpNext ==
    \/ AuthGetSessionDone
    \/ AuthGetProfileDone
    \/ AuthStateChange
    \/ AuthProfileFetched
    \/ AuthFormSubmit
    \/ AuthFormSignedIn
    \/ AuthFormSignedUp
    \/ AuthFormProfileInserted

SpecSignUp == SignUpInit /\ [][SignUpNext]_vars

\* C15: once a submission of the auth form has run to its end, every user
\* who has signed up has a profile row whose id is the user's id (the
\* primary key allows no second one).
C15_OneProfilePerUser ==
    authForm.at = "idle" => \A u \in authUsers : u \in dbProfiles

---------------------------------------------------------------------------
(* The pages' delete handlers *)

\* the table a page's delete handler deletes from
DeleteTables ==
    [transactions |-> "transactions", goals |-> "savings_goals",
     investments |-> "investments", categories |-> "categories"]

\* what the answer to confirm(...) is recorded as
Confirmed(accepted) == [call |-> "confirm", error |-> FALSE, accepted |-> accepted]

\* a filter that drops the first row, whatever its id
DropFirst(rows, id) == IF rows = <<>> THEN rows ELSE Tail(rows)

\* prev.filter(row => row.id !== id), and DELETE ... WHERE id = id
FilterOut(rows, id) ==
    LET Other(row) == row.id # id
    IN  SelectSeq(rows, Other)

\* a foreign key without an action: the referencing rows stay
OnDeleteNoAction(rows, id) == rows

\* category_id ... REFERENCES categories(id) ON DELETE CASCADE
OnDeleteCascade(rows, id) ==
    LET Other(row) == row.category_id # id
    IN  SelectSeq(rows, Other)

\* the delete button of a listed row: the handler runs up to its await
DeleteAsk ==
    /\ page \in DOMAIN DeleteTables
    /\ user # Null
    /\ deleting = Null
    /\ \E k \in 1..Len(Listed), accepted \in BOOLEAN :
          /\ lastCall' = Confirmed(accepted)
          /\ IF accepted
             THEN /\ deleting' = Some([table |-> DeleteTables[page], id |-> Listed[k].id])
                  /\ issued' = Some([call |-> "delete " \o DeleteTables[page],
                                     id |-> Listed[k].id])
             ELSE /\ issued' = Null
                  /\ UNCHANGED deleting
    /\ toast' = NoToast
    /\ UNCHANGED <<envVars, dbVars, collVars, dashVars, pc, budgetVars, crudVars>>
    /\ UNCHANGED <<field, text, formValue, formError, txFormVars>>
    /\ UNCHANGED <<download, categoryFilter, typeFilter>>
    /\ UNCHANGED <<authVars, loading, backendVars, lateVars>>

\* the titles of the notifications a delete shows after its call
DeleteTitles ==
    [transactions |-> "Transaction deleted", savings_goals |-> "Goal deleted",
     investments |-> "Investment deleted", categories |-> "Category deleted"]

DeleteErrorTitles ==
    [transactions |-> "Error deleting transaction", savings_goals |-> "Error deleting goal",
     investments |-> "Error deleting investment", categories |-> "Error deleting category"]

\* the delete call resolves
DeleteDone ==
    /\ deleting # Null
    /\ LET table == deleting[1].table
           id    == deleting[1].id
           Of(name, rows) == IF table = name THEN FilterOut(rows, id) ELSE rows
       IN  \/ /\ lastCall' = Wrote("delete " \o table, id)
              /\ toast' = SuccessToast(DeleteTitles[table])
              /\ dbCategories' = Of("categories", dbCategories)
              /\ dbTransactions' = IF table = "categories"
                                   THEN OnDeleteCascade(dbTransactions, id)
                                   ELSE Of("transactions", dbTransactions)
              /\ dbGoals' = Of("savings_goals", dbGoals)
              /\ dbInvestments' = Of("investments", dbInvestments)
              /\ categories' = Of("categories", categories)
              /\ transactions' = Of("transactions", transactions)
              /\ savingsGoals' = Of("savings_goals", savingsGoals)
              /\ investments' = Of("investments", investments)
           \/ /\ lastCall' = Failed("delete " \o table)
              /\ toast' = ErrorToast(DeleteErrorTitles[table], "delete " \o table)
              /\ UNCHANGED <<dbVars, dbInvestments, collVars, investments>>
    /\ deleting' = Null
    /\ issued' = Null
    /\ UNCHANGED <<envVars, dashVars, pc, budgetVars, page, current, dialog>>
    /\ UNCHANGED <<field, text, formValue, formError, txFormVars>>
    /\ UNCHANGED <<download, categoryFilter, typeFilter>>
    /\ UNCHANGED <<authVars, loading, backendVars, lateVars>>

\* a page that lists rows is mounted and its load has completed
DeleteInit ==
    /\ today = NewDate(2024, 0)
    /\ page \in DOMAIN DeleteTables
    /\ dbCategories = <<CategoryRow(1, "expense"), CategoryRow(2, "income")>>
    /\ dbTransactions \in
          { <<TransactionRow(1, 50, "expense", 1, today)>>,
            <<TransactionRow(1, 50, "expense", 1, today),
              TransactionRow(2, 100, "income", 2, today),
              TransactionRow(3, 50, "expense", 1, today - 1)>> }
    /\ dbGoals = <<GoalRow(1, 100, 50), GoalRow(2, 100, 0), GoalRow(3, 50, 50)>>
    /\ dbInvestments = <<InvestmentRow(1, 100, 50), InvestmentRow(2, 50, 100),
                         InvestmentRow(3, 100, 100)>>
    /\ categories = Loaded(dbCategories, {"transactions", "categories"})
    /\ transactions = Loaded(OrderByDateDesc(dbTransactions), {"transactions"})
    /\ savingsGoals = Loaded(dbGoals, {"goals"})
    /\ investments = Loaded(dbInvestments, {"investments"})
    /\ NothingShown
    /\ FormIdle
    /\ TxFormIdle

DeleteNext ==
    \/ DeleteAsk
    \/ DeleteDone

SpecDelete == DeleteInit /\ [][DeleteNext]_vars

\* the rows that do not reference the category
NotOfCategory(rows, id) ==
    LET Other(row) == row.category_id # id
    IN  SelectSeq(rows, Other)

CategoryDeleted == lastCall'.call = "delete categories" /\ ~lastCall'.error

\* C17: a successful delete of a category leaves the stored transactions as
\* they were, those of the category included (with a reference to a category
\* that is gone).
C17_TransactionsKept == [][CategoryDeleted => dbTransactions' = dbTransactions]_vars

\* C17, amended: a successful delete of a category deletes the transactions
\* that reference it, as the foreign key declares (ON DELETE CASCADE), and
\* leaves the other transactions in place: no reference dangles.
C17_TransactionsCascade ==
    [][CategoryDeleted =>
           /\ dbTransactions' = NotOfCategory(dbTransactions, lastCall'.id)
           /\ \A k \in 1..Len(dbTransactions') :
                 \E c \in 1..Len(dbCategories') :
                    dbCategories'[c].id = dbTransactions'[k].category_id]_vars

\* the category of two of the three stored transactions has been deleted
C17_CategoryWithTransactionsDeleted ==
    /\ lastCall = Wrote("delete categories", 1)
    /\ Len(dbTransactions) = 1
    /\ Len(dbCategories) = 1

DeleteCalls == {"delete " \o DeleteTables[p] : p \in DOMAIN DeleteTables}

Databases ==
    [transactions |-> dbTransactions, savings_goals |-> dbGoals,
     investments |-> dbInvestments, categories |-> dbCategories]

DeletedTable(call) == CHOOSE table \in DOMAIN Collections : call = "delete " \o table

\* a delete call is sent by the step in which the confirmation is accepted
ConfirmedFirst == issued' # Null => lastCall' = Confirmed(TRUE)

\* a declined confirmation sends nothing and changes nothing
DeclinedNothing ==
    lastCall' = Confirmed(FALSE) =>
        /\ issued' = Null
        /\ deleting' = Null
        /\ Collections' = Collections
        /\ Databases' = Databases

\* a delete that succeeded removes the row with the id from its collection and
\* keeps the others in their order; one that failed removes nothing
DeletedOne ==
    lastCall'.call \in DeleteCalls =>
        IF lastCall'.error
        THEN Collections' = Collections
        ELSE \A table \in DOMAIN Collections :
                Collections'[table] =
                    IF table = DeletedTable(lastCall'.call)
                    THEN WithoutId(Collections[table], lastCall'.id)
                    ELSE Collections[table]

\* C18: a delete handler sends its backend call only in the step in which the
\* confirmation is accepted; a declined confirmation sends no call and leaves
\* the local collections as they were; a successful delete removes from the
\* local collection exactly the row with the given id, the others keeping
\* their order.
C18_DeleteAfterConfirm == [][ConfirmedFirst /\ DeclinedNothing /\ DeletedOne]_vars

\* the second of three listed transactions has been deleted
C18_MiddleDeleted ==
    /\ lastCall = Wrote("delete transactions", 2)
    /\ Len(transactions) = 2
    /\ transactions[1].id = 1
    /\ transactions[2].id = 3

---------------------------------------------------------------------------
(* The CSV exports of the transactions page and of the reports page *)

MaxText == 2

DigitChars == <<"0", "1", "2", "3", "4", "5", "6", "7", "8", "9">>

\* String(n) for a natural number
RECURSIVE Digits(_)
Digits(n) == IF n < 10 THEN <<DigitChars[n + 1]>>
             ELSE Digits(n \div 10) \o <<DigitChars[(n % 10) + 1]>>

TwoDigits(n) == <<DigitChars[(n \div 10) + 1], DigitChars[(n % 10) + 1]>>

\* amount.toFixed(2), for an amount of n minor units
toFixed(n) == Digits(n \div 100) \o <<".">> \o TwoDigits(n % 100)

\* format(date, "yyyy-MM-dd") and toLocaleDateString(), without the day the
\* model's dates do not have
FormatDate(date) == Digits(getFullYear(date)) \o <<"-">> \o TwoDigits(getMonth(date) + 1)
toLocaleDateString(date) == Digits(getMonth(date) + 1) \o <<"/">> \o Digits(getFullYear(date))

TypeChars ==
    [expense |-> <<"e", "x", "p", "e", "n", "s", "e">>,
     income  |-> <<"i", "n", "c", "o", "m", "e">>]

toUpperCase(c) == CASE c = "e" -> "E" [] c = "i" -> "I" [] OTHER -> c

\* type.charAt(0).toUpperCase() + type.slice(1)
Capitalized(chars) == <<toUpperCase(Head(chars))>> \o Tail(chars)

Uncategorized == <<"U", "n", "c", "a", "t", "e", "g", "o", "r", "i", "z", "e", "d">>

\* categories.find(c => c.id === category_id)?.name || "Uncategorized"
CategoryName(category_id) ==
    LET Found(c) == c.id = category_id
        found == SelectSeq(categories, Found)
    IN  IF found = <<>> \/ Head(found).name = <<>> THEN Uncategorized ELSE Head(found).name

Headers ==
    << <<"D", "a", "t", "e">>, <<"T", "y", "p", "e">>,
       <<"C", "a", "t", "e", "g", "o", "r", "y">>,
       <<"D", "e", "s", "c", "r", "i", "p", "t", "i", "o", "n">>,
       <<"A", "m", "o", "u", "n", "t">> >>

\* array.join(separator)
RECURSIVE Join(_, _)
Join(parts, separator) ==
    IF parts = <<>> THEN <<>>
    ELSE IF Len(parts) = 1 THEN Head(parts)
    ELSE Head(parts) \o <<separator>> \o Join(Tail(parts), separator)

\* the row of a transaction in the export of the transactions page
TransactionsRow(transaction) ==
    << toLocaleDateString(transaction.date),
       Capitalized(TypeChars[transaction.type]),
       CategoryName(transaction.category_id),
       transaction.description,
       toFixed(transaction.amount) >>

\* the row of a transaction in the export of the reports page
ReportRow(transaction) ==
    << FormatDate(transaction.date),
       TypeChars[transaction.type],
       CategoryName(transaction.category_id),
       transaction.description,
       toFixed(transaction.amount) >>

\* [headers.join(","), ...rows.map(row => row.join(","))].join("\n")
csvContent(rows) ==
    Join(<<Join(Headers, ",")>> \o [k \in 1..Len(rows) |-> Join(rows[k], ",")], "\n")

\* a list that is never taken for empty
NeverEmpty(list) == FALSE

\* list.length === 0
IsEmpty(list) == Len(list) = 0

\* the reports page's filteredTransactions
filteredTransactions ==
    LET Passes(transaction) ==
            /\ categoryFilter = Null \/ transaction.category_id = categoryFilter[1]
            /\ typeFilter = "all" \/ transaction.type = typeFilter
    IN  SelectSeq(transactions, Passes)

Exported(by, file) == [by |-> by, file |-> file]

\* exportTransactions of the transactions page
ExportTransactions ==
    /\ page = "transactions"
    /\ IF IsEmpty(transactions)
       THEN /\ toast' = SuccessToast("No transactions to export")
            /\ download' = Exported("exportTransactions", Null)
       ELSE /\ toast' = NoToast
            /\ download' = Exported("exportTransactions",
                 Some(csvContent([k \in 1..Len(transactions) |->
                                     TransactionsRow(transactions[k])])))
    /\ lastCall' = NoCall
    /\ UNCHANGED <<envVars, dbVars, collVars, dashVars, pc, budgetVars, crudVars>>
    /\ UNCHANGED <<formVars, txFormVars, deleting, categoryFilter, typeFilter>>
    /\ UNCHANGED <<authVars, loading, backendVars, lateVars>>

\* exportReport of the reports page
ExportReport ==
    /\ page = "reports"
    /\ IF IsEmpty(filteredTransactions)
       THEN /\ toast' = SuccessToast("No data to export")
            /\ download' = Exported("exportReport", Null)
       ELSE /\ toast' = NoToast
            /\ download' = Exported("exportReport",
                 Some(csvContent([k \in 1..Len(filteredTransactions) |->
                                     ReportRow(filteredTransactions[k])])))
    /\ lastCall' = NoCall
    /\ UNCHANGED <<envVars, dbVars, collVars, dashVars, pc, budgetVars, crudVars>>
    /\ UNCHANGED <<formVars, txFormVars, deleting, categoryFilter, typeFilter>>
    /\ UNCHANGED <<authVars, loading, backendVars, lateVars>>

\* the reports page's category select
ReportsSetCategoryFilter ==
    /\ page = "reports"
    /\ \E filter \in {Null} \cup {Some(categories[k].id) : k \in 1..Len(categories)} :
          categoryFilter' = filter
    /\ Quiet
    /\ download' = NoDownload
    /\ UNCHANGED <<envVars, dbVars, collVars, dashVars, pc, budgetVars, crudVars>>
    /\ UNCHANGED <<formVars, txFormVars, deleting, typeFilter>>
    /\ UNCHANGED <<authVars, loading, backendVars, lateVars>>

\* the reports page's type select
ReportsSetTypeFilter ==
    /\ page = "reports"
    /\ \E filter \in {"all", "income", "expense"} : typeFilter' = filter
    /\ Quiet
    /\ download' = NoDownload
    /\ UNCHANGED <<envVars, dbVars, collVars, dashVars, pc, budgetVars, crudVars>>
    /\ UNCHANGED <<formVars, txFormVars, deleting, categoryFilter>>
    /\ UNCHANGED <<authVars, loading, backendVars, lateVars>>

\* the characters of the descriptions and names a user has entered
EnteredChars == {"a", ",", "\n"}
Entered == UNION { [1..n -> EnteredChars] : n \in 1..MaxText }

\* a stored transaction with its description, a stored category with its name
Described(row, description) == row @@ [description |-> description]
Named(row, name) == row @@ [name |-> name]

\* the page's load has completed: one category, up to two transactions
ExportInit ==
    /\ today = NewDate(2024, 0)
    /\ page \in {"transactions", "reports"}
    /\ \E name \in {<<"a">>, <<"a", ",">>} :
          dbCategories = <<Named(CategoryRow(1, "expense"), name)>>
    /\ \E description \in Entered, type \in Types, category_id \in {1, 2} :
          LET first  == Described(TransactionRow(1, 1050, type, category_id, today),
                                  description)
              second == Described(TransactionRow(2, 5, "income", 2, today - 1), <<"a">>)
          IN  dbTransactions \in {<<>>, <<first>>, <<first, second>>}
    /\ dbGoals = <<>>
    /\ dbInvestments = <<>>
    /\ categories = dbCategories
    /\ transactions = dbTransactions
    /\ savingsGoals = <<>>
    /\ investments = <<>>
    /\ NothingShown
    /\ FormIdle
    /\ TxFormIdle

ExportNext ==
    \/ ExportTransactions
    \/ ExportReport
    \/ ReportsSetCategoryFilter
    \/ ReportsSetTypeFilter

SpecExport == ExportInit /\ [][ExportNext]_vars

\* the list an export writes out
ExportedList ==
    IF download.by = "exportReport" THEN filteredTransactions ELSE transactions

\* C19: an export of an empty list (the transactions of the transactions
\* page, the transactions that pass the filters of the reports page) downloads
\* no file and shows a notification.
C19_EmptyExportNotifies ==
    (download.by # "none" /\ Len(ExportedList) = 0) =>
        /\ download.file = Null
        /\ toast # NoToast

\* the reports page holds transactions and its filters let none of them pass
C19_AllFilteredOut ==
    /\ download.by = "exportReport"
    /\ Len(transactions) > 0
    /\ Len(filteredTransactions) = 0
    /\ toast.title = "No data to export"

\* text.split(separator)
RECURSIVE Split(_, _)
Split(chars, separator) ==
    IF \A k \in 1..Len(chars) : chars[k] # separator THEN <<chars>>
    ELSE LET at == CHOOSE k \in 1..Len(chars) :
                       /\ chars[k] = separator
                       /\ \A j \in 1..(k - 1) : chars[j] # separator
         IN  <<SubSeq(chars, 1, at - 1)>> \o Split(SubSeq(chars, at + 1, Len(chars)), separator)

\* C20: a downloaded file is the header row followed by one row for each
\* transaction of the exported list, in the list's order, and each of these
\* rows has five comma-separated fields, the third being the transaction's
\* category name and the fourth its description.
C20_OneRowOfFiveFields ==
    download.file # Null =>
        LET lines == Split(download.file[1], "\n")
        IN  /\ Len(lines) = 1 + Len(ExportedList)
            /\ Split(lines[1], ",") = Headers
            /\ \A k \in 1..Len(ExportedList) :
                  LET fields == Split(lines[k + 1], ",")
                  IN  /\ Len(fields) = 5
                      /\ fields[3] = CategoryName(ExportedList[k].category_id)
                      /\ fields[4] = ExportedList[k].description

---------------------------------------------------------------------------
(* The category summary *)

\* the sum of the amounts of the listed transactions that reference a category
TotalOfCategory(id) ==
    LET OfCategory(t) == t.category_id = id
    IN  SumAmounts(SelectSeq(transactions, OfCategory))

\* the categories the dashboard's pie chart is about
SummaryCategories == SelectSeq(categories, IsExpenseCategory)

\* C21: once the dashboard has loaded, its category summary has one entry for
\* each category of the chart whose transactions add up to a positive total,
\* with that total as its value, no entry for any other category, and its
\* entries in non-increasing order of their values.
C21_SummaryOfPositiveTotals ==
    lastCall = Succeeded("select savings_goals") =>
        /\ \A k \in 1..Len(SummaryCategories) :
              LET id == SummaryCategories[k].id
              IN  TotalOfCategory(id) > 0 =>
                     \E e \in 1..Len(categoryData) :
                        /\ categoryData[e].name = id
                        /\ categoryData[e].value = TotalOfCategory(id)
                        /\ \A f \in 1..Len(categoryData) :
                              categoryData[f].name = id => f = e
        /\ \A e \in 1..Len(categoryData) :
              /\ categoryData[e].value > 0
              /\ categoryData[e].value = TotalOfCategory(categoryData[e].name)
              /\ \E k \in 1..Len(SummaryCategories) :
                    SummaryCategories[k].id = categoryData[e].name
        /\ \A e \in 1..(Len(categoryData) - 1) :
              categoryData[e].value >= categoryData[e + 1].value

---------------------------------------------------------------------------
(* The totals shown *)

\* C28: on the investments page the stats shown are the aggregates of the
\* local list of investments, after any sequence of successful add, edit and
\* delete operations: the total invested, the total value, their difference as the
\* total return, and the return as a percentage of the total invested (0 when
\* nothing is invested).
C28_StatsOfLocalList ==
    page = "investments" =>
        LET totalInvested == SumOf(investments, "amount_invested")
            totalValue == SumOf(investments, "current_value")
        IN  /\ stats.totalInvested = totalInvested
            /\ stats.totalValue = totalValue
            /\ stats.totalReturn = totalValue - totalInvested
            /\ IF totalInvested = 0
               THEN stats.returnPercentage.num = 0
               ELSE stats.returnPercentage.num * totalInvested
                       = (totalValue - totalInvested) * 100 * stats.returnPercentage.den

\* C29: once the dashboard's data has loaded, the stats shown are the
\* aggregates of the loaded collections, for every combination of
\* transactions and goals, an empty list of transactions included: the income
\* total, the expense total, their difference as the balance, and the sum of
\* the goals' current amounts as the savings total.
C29_StatsOfLoadedCollections ==
    lastCall = Succeeded("select savings_goals") =>
        LET OfIncome(t) == t.type = "income"
            OfExpense(t) == t.type = "expense"
            income == SumAmounts(SelectSeq(transactions, OfIncome))
            expenses == SumAmounts(SelectSeq(transactions, OfExpense))
        IN  /\ stats.totalIncome = income
            /\ stats.totalExpenses = expenses
            /\ stats.balance = income - expenses
            /\ stats.savingsTotal = SumCurrentAmounts(savingsGoals)

---------------------------------------------------------------------------
(* Contributions to a goal, from two sessions *)

\* handleSaveContribution in another session of the user, which loaded its
\* goals when this one did; this session sees nothing of it
OtherSessionSavesContribution ==
    /\ page = "goals"
    /\ otherOps < MaxOtherOps
    /\ otherOps' = otherOps + 1
    /\ \E k \in 1..Len(otherGoals), contributionAmount \in Amounts \cup {0} :
          /\ IsContribution(contributionAmount)
          /\ newAmount(otherGoals[k], contributionAmount) <= MaxSaved
          /\ dbGoals' = StoredAfterUpdate(otherGoals[k], contributionAmount)
          /\ otherGoals' = EditById(otherGoals, otherGoals[k].id,
                [current_amount |-> newAmount(otherGoals[k], contributionAmount)])
    /\ Quiet
    /\ UNCHANGED <<today, dbCategories, dbTransactions, collVars, dashVars, pc>>
    /\ UNCHANGED <<budgetVars, crudVars, formVars, txFormVars>>
    /\ UNCHANGED <<authVars, loading, backendVars, handlerVars>>
    /\ UNCHANGED <<reload, dateRange, fetches, isSubmitting, awaited>>

\* both sessions have the goals page open and have loaded the same goals
ContributeInit ==
    /\ today = NewDate(2024, 0)
    /\ page = "goals"
    /\ dbCategories = <<>>
    /\ dbTransactions = <<>>
    /\ dbInvestments = <<>>
    /\ dbGoals \in {<<GoalRow(1, 100, 50)>>, <<GoalRow(1, 100, 50), GoalRow(2, 100, 0)>>}
    /\ categories = <<>>
    /\ transactions = <<>>
    /\ investments = <<>>
    /\ savingsGoals = dbGoals
    /\ otherGoals = dbGoals
    /\ monthlyData = <<>>
    /\ categoryData = <<>>
    /\ stats = NoStats
    /\ budgetStatus = <<>>
    /\ preLoad = <<>>
    /\ pc = "idle"
    /\ toast = NoToast
    /\ lastCall = NoCall
    /\ otherOps = 0
    /\ dbRows = {}
    /\ current = Null
    /\ dialog = "none"
    /\ reload = "none"
    /\ dateRange = InitialRange
    /\ fetches = {}
    /\ isSubmitting = FALSE
    /\ awaited = Null
    /\ HandlersIdle
    /\ Authenticated
    /\ FormIdle
    /\ TxFormIdle

ContributeNext ==
    \/ OpenContribute
    \/ GoalsSaveContribution
    \/ OtherSessionSavesContribution

SpecContribute == ContributeInit /\ [][ContributeNext]_vars

\* the current amount of the goal id in a list of goals
AmountOf(goals, id) ==
    LET k == CHOOSE k \in 1..Len(goals) : goals[k].id = id
    IN  goals[k].current_amount

\* the step is a successful contribution of this session
ContributionSaved ==
    /\ dialog = "contribute"
    /\ current # Null
    /\ lastCall' = Wrote("update savings_goals", current[1].id)

\* the goals are what they were, but for the current amount of the goal id
OnlyAmountChanged(before, after, id, amount) ==
    /\ Len(after) = Len(before)
    /\ \A k \in 1..Len(before) :
          after[k] = IF before[k].id = id
                     THEN [before[k] EXCEPT !.current_amount = amount]
                     ELSE before[k]

ContributionAdded ==
    ContributionSaved =>
        \E a \in 1..MaxSaved :
           LET id == current[1].id
               amount == AmountOf(savingsGoals, id) + a
           IN  /\ OnlyAmountChanged(savingsGoals, savingsGoals', id, amount)
               /\ OnlyAmountChanged(dbGoals, dbGoals', id, amount)
               /\ AmountOf(savingsGoals', id) > AmountOf(savingsGoals, id)

OtherContributionSaved(id) ==
    /\ otherOps' = otherOps + 1
    /\ AmountOf(otherGoals', id) # AmountOf(otherGoals, id)

LaterWriteStands ==
    /\ ContributionSaved =>
          /\ AmountOf(savingsGoals', current[1].id) > AmountOf(savingsGoals, current[1].id)
          /\ AmountOf(dbGoals', current[1].id) = AmountOf(savingsGoals', current[1].id)
    /\ \A k \in 1..Len(otherGoals) :
          OtherContributionSaved(otherGoals[k].id) =>
             /\ AmountOf(otherGoals', otherGoals[k].id) > otherGoals[k].current_amount
             /\ AmountOf(dbGoals', otherGoals[k].id) = AmountOf(otherGoals', otherGoals[k].id)

\* C23: two sessions have loaded the same goal and each saves a contribution:
\* each update writes the amount its session loaded plus its own contribution,
\* whatever the backend holds by then, so after both the stored amount is the
\* one the later update wrote.
C23_LastWriteWins == [][LaterWriteStands]_vars

\* both sessions loaded 50; the other added 100, then this one added 50: the
\* stored amount is this session's 100
C23_EarlierContributionLost ==
    /\ otherOps = 1
    /\ lastCall = Wrote("update savings_goals", 1)
    /\ AmountOf(otherGoals, 1) = 150
    /\ AmountOf(savingsGoals, 1) = 100
    /\ AmountOf(dbGoals, 1) = 100

---------------------------------------------------------------------------
(* The auth holder's state *)

\* C24: in every state of the auth holder the user is null exactly when the
\* session is null, and a user that is not null is the user of the session
\* held; right after a successful password login through the auth form this
\* holds too, and the dashboard the form navigated to is still shown.
C24_UserOfSession ==
    /\ user = session
    /\ lastCall = Succeeded("auth.signInWithPassword") => page = "dashboard"

\* C25: whatever the order of the notifications, of their profile fetches, of
\* the initial load and of signOut, once no profile fetch is pending the
\* profile is null whenever the user is null, and a profile that is not null
\* is the profile of the current user.
C25_ProfileOfCurrentUser ==
    (pendingProfiles = {} /\ authPc.at = "done") =>
        /\ user = Null => profile = Null
        /\ profile # Null => profile = user

---------------------------------------------------------------------------
(* Two runs of the dashboard's fetch effect *)

\* what a second run of fetchData leaves alone
offReload == <<budgetVars, crudVars, formVars, txFormVars, authVars, loading,
               backendVars, handlerVars, otherGoals, dateRange, fetches, isSubmitting,
               awaited>>

\* the user object changes while fetchData is under way (the initial session
\* load and a notification both set it): the effect runs again
ReloadStart ==
    /\ page = "dashboard"
    /\ pc # "idle"
    /\ reload = "none"
    /\ reload' = "categories"
    /\ Quiet
    /\ UNCHANGED <<envVars, dbVars, collVars, dashVars, pc>>
    /\ UNCHANGED offReload

\* catch (error) of the second run
ReloadError(call) ==
    /\ toast' = ErrorToast("Error fetching data", call)
    /\ lastCall' = Failed(call)
    /\ reload' = "done"
    /\ UNCHANGED <<envVars, dbVars, collVars, dashVars>>

\* the categories select of the second run answers
ReloadCategoriesDone ==
    /\ reload = "categories"
    /\ \/ ReloadError("select categories")
       \/ /\ lastCall' = Succeeded("select categories")
          /\ toast' = NoToast
          /\ IF Len(dbCategories) = 0
             THEN /\ reload' = "defaults"
                  /\ UNCHANGED <<collVars, dashVars>>
             ELSE /\ categories' = dbCategories
                  /\ reload' = "transactions"
                  /\ UNCHANGED <<transactions, savingsGoals>>
                  /\ ProcessData
          /\ UNCHANGED <<envVars, dbVars>>
    /\ UNCHANGED pc
    /\ UNCHANGED offReload

\* createDefaultCategories of the second run
ReloadCreateDefaults ==
    /\ reload = "defaults"
    /\ \E failed \in SUBSET (1..Len(DefaultCategories)) :
          /\ Cardinality(failed) <= MaxInsertFailures
          /\ LET Landed(r) == (r.id - Len(dbCategories)) \notin failed
                 rows == [k \in 1..Len(DefaultCategories) |->
                              CategoryRow(Len(dbCategories) + k, DefaultCategories[k])]
             IN  dbCategories' = dbCategories \o SelectSeq(rows, Landed)
          /\ lastCall' = IF failed = {} THEN Succeeded("insert categories")
                         ELSE Failed("insert categories")
    /\ toast' = NoToast
    /\ reload' = "newCategories"
    /\ UNCHANGED <<envVars, dbTransactions, dbGoals, collVars, dashVars, pc>>
    /\ UNCHANGED offReload

\* the second categories select of the second run answers
ReloadNewCategoriesDone ==
    /\ reload = "newCategories"
    /\ \/ /\ categories' = dbCategories
          /\ lastCall' = Succeeded("select categories")
       \/ /\ categories' = <<>>
          /\ lastCall' = Failed("select categories")
    /\ toast' = NoToast
    /\ reload' = "transactions"
    /\ UNCHANGED <<transactions, savingsGoals>>
    /\ ProcessData
    /\ UNCHANGED <<envVars, dbVars, pc>>
    /\ UNCHANGED offReload

\* the transactions select of the second run answers
ReloadTransactionsDone ==
    /\ reload = "transactions"
    /\ \/ ReloadError("select transactions")
       \/ /\ transactions' = OrderByDateDesc(dbTransactions)
          /\ lastCall' = Succeeded("select transactions")
          /\ toast' = NoToast
          /\ reload' = "goals"
          /\ UNCHANGED <<categories, savingsGoals>>
          /\ ProcessData
          /\ UNCHANGED <<envVars, dbVars>>
    /\ UNCHANGED pc
    /\ UNCHANGED offReload

\* the savings goals select of the second run answers
ReloadGoalsDone ==
    /\ reload = "goals"
    /\ \/ ReloadError("select savings_goals")
       \/ /\ savingsGoals' = dbGoals
          /\ lastCall' = Succeeded("select savings_goals")
          /\ toast' = NoToast
          /\ reload' = "done"
          /\ UNCHANGED <<categories, transactions>>
          /\ ProcessData
          /\ UNCHANGED <<envVars, dbVars>>
    /\ UNCHANGED pc
    /\ UNCHANGED offReload

\* the dashboard is mounted for a user who has no category, or has one
TwoLoadsInit ==
    /\ page = "dashboard"
    /\ today = NewDate(2024, 0)
    /\ dbCategories \in {<<>>, <<CategoryRow(1, "income")>>}
    /\ dbTransactions \in IF dbCategories = <<>> THEN {<<>>}
                         ELSE {<<>>, <<TransactionRow(1, 50, "income", 1, today)>>}
    /\ dbGoals = <<>>
    /\ ViewIdle

TwoLoadsNext ==
    \/ DashFetchStart
    \/ DashCategoriesDone
    \/ DashCreateDefaults
    \/ DashNewCategoriesDone
    \/ DashTransactionsDone
    \/ DashGoalsDone
    \/ ReloadStart
    \/ ReloadCategoriesDone
    \/ ReloadCreateDefaults
    \/ ReloadNewCategoriesDone
    \/ ReloadTransactionsDone
    \/ ReloadGoalsDone

SpecTwoLoads == TwoLoadsInit /\ [][TwoLoadsNext]_vars

\* the user's categories of one type
CategoriesOfType(type) ==
    LET HasType(c) == c.type = type
    IN  Len(SelectSeq(dbCategories, HasType))

\* C26: however the dashboard's loads interleave, two loads that start before
\* either has finished included, the default categories are created at most
\* once: the user never has more than the ten defaults, 6 expense and 4
\* income categories, and a user who has a category gets no defaults.
C26_DefaultsOnce ==
    /\ CategoriesOfType("expense") <= 6
    /\ CategoriesOfType("income") <= 4

---------------------------------------------------------------------------
(* The reports page's fetches *)

MaxFetches == 2

\* the date ranges the picker offers, in calendar months
Ranges == { [from |-> f, to |-> t] : f \in (today - 2)..today, t \in (today - 2)..today }

\* .gte("date", dateRange.from).lte("date", dateRange.to).order("date", desc)
InRange(rows, range) ==
    LET Within(t) == t.date >= range.from /\ t.date <= range.to
    IN  OrderByDateDesc(SelectSeq(rows, Within))

\* one run of fetchData: the range of its closure, and the select it awaits
\* (or how it ended)
Fetch(range, at) == [range |-> range, at |-> at]

\* what the reports page's fetches leave alone
offReports == <<envVars, dbVars, savingsGoals, dashVars, pc, budgetVars, crudVars,
                formVars, txFormVars, authVars, loading, backendVars, handlerVars,
                otherGoals, reload, isSubmitting, awaited>>

\* setDateRange from the picker; the fetch effect depends on dateRange and
\* runs again, whatever earlier runs are still under way
ReportsSetDateRange ==
    /\ page = "reports"
    /\ Cardinality(fetches) < MaxFetches
    /\ \E range \in Ranges :
          /\ range.from <= range.to
          /\ range # dateRange
          /\ dateRange' = range
          /\ fetches' = fetches \cup {Fetch(range, "categories")}
    /\ Quiet
    /\ UNCHANGED <<categories, transactions>>
    /\ UNCHANGED offReports

\* the categories select of one run answers
ReportsCategoriesDone ==
    /\ \E f \in fetches :
          /\ f.at = "categories"
          /\ \/ /\ toast' = ErrorToast("Error fetching data", "select categories")
                /\ lastCall' = Failed("select categories")
                /\ fetches' = (fetches \ {f}) \cup {Fetch(f.range, "failed")}
                /\ UNCHANGED categories
             \/ /\ categories' = dbCategories
                /\ toast' = NoToast
                /\ lastCall' = Succeeded("select categories")
                /\ fetches' = (fetches \ {f}) \cup {Fetch(f.range, "transactions")}
    /\ UNCHANGED <<dateRange, transactions>>
    /\ UNCHANGED offReports

\* the transactions select of one run answers
ReportsTransactionsDone ==
    /\ \E f \in fetches :
          /\ f.at = "transactions"
          /\ \/ /\ toast' = ErrorToast("Error fetching data", "select transactions")
                /\ lastCall' = Failed("select transactions")
                /\ fetches' = (fetches \ {f}) \cup {Fetch(f.range, "failed")}
                /\ UNCHANGED transactions
             \/ /\ transactions' = InRange(dbTransactions, f.range)
                /\ toast' = NoToast
                /\ lastCall' = Succeeded("select transactions")
                /\ fetches' = (fetches \ {f}) \cup {Fetch(f.range, "done")}
    /\ UNCHANGED <<dateRange, categories>>
    /\ UNCHANGED offReports

\* the reports page has loaded the transactions of its first date range
ReportsInit ==
    /\ today = NewDate(2024, 0)
    /\ page = "reports"
    /\ dbCategories = <<CategoryRow(1, "expense")>>
    /\ dbTransactions \in {<<TransactionRow(1, 50, "expense", 1, today)>>,
                           <<TransactionRow(1, 50, "expense", 1, today),
                             TransactionRow(2, 100, "expense", 1, today - 2)>>}
    /\ dbGoals = <<>>
    /\ dbInvestments = <<>>
    /\ categories = dbCategories
    /\ transactions = InRange(dbTransactions, InitialRange)
    /\ savingsGoals = <<>>
    /\ investments = <<>>
    /\ NothingShown
    /\ FormIdle
    /\ TxFormIdle

ReportsNext ==
    \/ ReportsSetDateRange
    \/ ReportsCategoriesDone
    \/ ReportsTransactionsDone

SpecReports == ReportsInit /\ [][ReportsNext]_vars

\* C27: on the reports page, after the date range has been changed any number
\* of times and every fetch issued has completed without an error, in
\* whatever order, the list of transactions shown is the result of the fetch
\* for the range selected last.
C27_ListOfLastRange ==
    (\A f \in fetches : f.at = "done") =>
        transactions = InRange(dbTransactions, dateRange)

---------------------------------------------------------------------------
(* The submit handlers and their flags *)

\* the forms whose submissions reach the backend
SubmitForms == {"transaction", "category", "goal", "contribution", "investment",
                "budget", "login", "register"}

\* the form is on the page and can be submitted
CanSubmit(form) ==
    CASE form = "transaction" -> \/ page = "dashboard"
                                 \/ page = "transactions" /\ dialog = "form"
      [] form = "category" -> page = "categories" /\ dialog = "form"
      [] form = "goal" -> page = "goals" /\ dialog = "form"
      [] form = "contribution" -> page = "goals" /\ dialog = "contribute" /\ current # Null
      [] form = "investment" -> page = "investments" /\ dialog = "form"
      [] form = "budget" -> page = "budget"
      [] OTHER -> page = "login"

TableOfForm(form) ==
    CASE form = "transaction" -> "transactions"
      [] form \in {"category", "budget"} -> "categories"
      [] form \in {"goal", "contribution"} -> "savings_goals"
      [] OTHER -> "investments"

\* the first call the form's handler awaits
FirstCall(form) ==
    CASE form = "login" -> "auth.signInWithPassword"
      [] form = "register" -> "auth.signUp"
      [] form \in {"contribution", "budget"} -> "update " \o TableOfForm(form)
      [] OTHER -> (IF current # Null /\ page # "dashboard" THEN "update " ELSE "insert ")
                     \o TableOfForm(form)

Awaiting(form, call) == [form |-> form, call |-> call]

\* the title of the handler's success notification
SubmitTitle(form, call) ==
    CASE form = "transaction" ->
            IF call = "update transactions" THEN "Transaction updated" ELSE "Transaction added"
      [] form = "category" ->
            IF call = "update categories" THEN "Category updated" ELSE "Category created"
      [] form = "goal" ->
            IF call = "update savings_goals" THEN "Goal updated" ELSE "Goal created"
      [] form = "contribution" -> "Contribution added"
      [] form = "investment" ->
            IF call = "update investments" THEN "Investment updated" ELSE "Investment added"
      [] form = "budget" -> "Budget updated"
      [] form = "login" -> "Logged in successfully"
      [] OTHER -> "Account created successfully"

\* the title of the notification in the handler's catch
SubmitErrorTitle(form, call) ==
    CASE form = "transaction" ->
            IF call = "update transactions" THEN "Error updating transaction"
            ELSE "Error adding transaction"
      [] form = "category" -> "Error saving category"
      [] form = "goal" -> "Error saving goal"
      [] form = "contribution" -> "Error adding contribution"
      [] form = "investment" -> "Error saving investment"
      [] form = "budget" -> "Error updating budget"
      [] OTHER -> "Error"

\* what a submit handler leaves alone before and after its call
offSubmit == <<envVars, dbVars, collVars, dashVars, pc, budgetVars, dbInvestments,
               investments, formVars, txFormVars, user, profile, isLoading, authPc,
               pendingProfiles, notified, dbProfiles, loading, backendVars,
               handlerVars, otherGoals, reload, dateRange, fetches>>

\* a handler that resets the flag only when its call went well
ResetOnSuccess(outcome) ==
    isSubmitting' = IF outcome = "ok" THEN FALSE ELSE isSubmitting

\* finally { setIsSubmitting(false) }  (setLoading(false) in the auth form)
SubmitFinally(outcome) == isSubmitting' = FALSE

\* a submit handler runs up to its await: the pages' handlers return at once
\* without a user, the others set the flag and issue their call; a disabled
\* submit control submits nothing
SubmitStart ==
    /\ awaited = Null
    /\ ~isSubmitting
    /\ \E form \in SubmitForms :
          /\ CanSubmit(form)
          /\ form \in {"login", "register"} \/ user # Null
          /\ awaited' = Some(Awaiting(form, FirstCall(form)))
    /\ isSubmitting' = TRUE
    /\ Quiet
    /\ UNCHANGED <<session, page, current, dialog>>
    /\ UNCHANGED offSubmit

\* how an awaited call ends: it resolves without an error, resolves with an
\* error (which the handler throws), or rejects
CallOutcomes == {"ok", "error", "thrown"}

\* the awaited call ends and the handler runs to its end: after signUp, the
\* register branch goes on to insert the profile; a success closes the dialog
\* (the login form navigates), every other outcome goes through catch; all go
\* through finally
SubmitAnswered ==
    /\ awaited # Null
    /\ UNCHANGED offSubmit
    /\ LET form == awaited[1].form
           call == awaited[1].call
       IN  \E outcome \in CallOutcomes :
              IF outcome = "ok" /\ call = "auth.signUp"
              THEN /\ lastCall' = Succeeded(call)
                   /\ toast' = NoToast
                   /\ \/ /\ awaited' = Some(Awaiting(form, "insert profiles"))
                         /\ UNCHANGED isSubmitting
                      \/ /\ awaited' = Null
                         /\ SubmitFinally(outcome)
                   /\ UNCHANGED <<session, page, current, dialog>>
              ELSE /\ awaited' = Null
                   /\ SubmitFinally(outcome)
                   /\ IF outcome = "ok"
                      THEN /\ lastCall' = Succeeded(call)
                           /\ toast' = SuccessToast(SubmitTitle(form, call))
                           /\ IF form \in {"login", "register"}
                              THEN /\ session' = Some("a")
                                   /\ NavigateTo("dashboard")
                                   /\ UNCHANGED <<current, dialog>>
                              ELSE /\ IF form = "budget" \/ page = "dashboard"
                                      THEN UNCHANGED <<current, dialog>>
                                      ELSE CloseAfterSave
                                   /\ UNCHANGED <<session, page>>
                      ELSE /\ lastCall' = Failed(call)
                           /\ toast' = ErrorToast(SubmitErrorTitle(form, call), call)
                           /\ UNCHANGED <<session, page, current, dialog>>

\* a page with its data loaded, the dashboard, or the login page
SubmitInit ==
    \/ CrudInit
    \/ NewUserInit
    \/ SignUpInit

SubmitNext ==
    \/ OpenAdd
    \/ OpenEdit
    \/ OpenContribute
    \/ SubmitStart
    \/ SubmitAnswered

SpecSubmit == SubmitInit /\ [][SubmitNext]_vars

\* the network client settles every request: an awaited call ends
SubmitFairness == WF_vars(SubmitAnswered)

SpecSubmitLive == SpecSubmit /\ SubmitFairness

\* the flag is set before the call: it is set while a call is awaited
SetBeforeCall == awaited' # Null => isSubmitting'

\* the flag is reset when the handler's last call has ended
ResetAfterCall == (awaited # Null /\ awaited' = Null) => ~isSubmitting'

\* C30: for every form whose submission reaches the backend, the submitting
\* flag is set before the call is made and is reset when the call has ended,
\* on success and on failure alike; no execution leaves a submit control
\* disabled for ever.
C30_SubmitFlagReset ==
    /\ [][SetBeforeCall /\ ResetAfterCall]_vars
    /\ [](isSubmitting => <>(~isSubmitting))

\* an update from the goal form has failed: the dialog is still open and its
\* submit control is enabled again
C30_EnabledAfterFailure ==
    /\ lastCall = Failed("update savings_goals")
    /\ toast = ErrorToast("Error saving goal", "update savings_goals")
    /\ dialog = "form"
    /\ awaited = Null
    /\ ~isSubmitting

=============================================================================
